---- MODULE Spec2Model ----
(***************************************************************************)
(* Model of ddns-traefik-sync: the reconciliation engine                   *)
(* (app/sync_engine.py), the zone matcher and the retrying request of the  *)
(* Cloudflare client (app/cloudflare_client.py), the public-IP resolver    *)
(* (app/ip_resolver.py), the process loop (app/main.py) and the provider   *)
(* state they act on.                                                      *)
(*                                                                         *)
(* Python strings are modelled as sequences of one-character strings, so   *)
(* that strip(), substring tests, endswith(), len() and the lexicographic  *)
(* order of sorted() are computed and not assumed.  Python's None is the   *)
(* value None below, which is no string (its one element is not a          *)
(* character).                                                             *)
(***************************************************************************)
EXTENDS Integers, Sequences, FiniteSets, TLC

VARIABLES
    fn_args,         \* arguments of the pure function under check
    fn_result,       \* the results of its successive applications
    cf_zones,        \* provider: the account's zones, in the order list_zones returns them
    cf_records,      \* provider: the A records of all zones
    cf_serial,       \* provider: how many records it has created
    edits,           \* provider: the edits others have made to its records, in order
    args,            \* sync_domains: domains, public_ip, default_proxied, dry_run, cleanup_stale
    pc,              \* sync_domains: the statement the call is at
    zones,           \* sync_domains: the fetched zone list
    domain_to_zone,  \* sync_domains: matched hostname -> <<zone_id, zone_name>>
    todo,            \* sync_domains: hostnames the per-hostname loop has yet to handle
    records,         \* sync_domains: the fetched records of the current hostname
    zone_todo,       \* sync_domains: zones the cleanup loop has yet to scan
    a_records,       \* sync_domains: records of the scanned zone yet to be looked at
    counts,          \* sync_domains: creates, updates, noops, deletes, skipped
    summary,         \* sync_domains: the returned SyncSummary, None before the return
    calls,           \* the provider calls of the current call of sync_domains, in order
    log,             \* the logger's lines of the current call, in order
    entry,           \* the provider's records when the current call began
    history,         \* the calls of sync_domains that have returned
    config,          \* main: what load_config comes to (the AppConfig, or that it raises)
    main_pc,         \* main: the statement the process is at
    cycle,           \* main: how many cycles have been started
    cycle_log,       \* main: how each cycle ended, as main's logger has it
    ip_queries,      \* run_sync_cycle: the IP sources asked in the current cycle, in order
    exit_code        \* main: the value returned, -1 while the process runs

fn_vars == <<fn_args, fn_result>>
main_vars == <<config, main_pc, cycle, cycle_log, ip_queries, exit_code>>
provider_vars == <<cf_zones, cf_records, cf_serial, edits>>
local_vars == <<zones, domain_to_zone, todo, records, zone_todo, a_records, counts>>
sync_vars ==
    <<cf_zones, cf_records, cf_serial, edits, args, pc, zones, domain_to_zone, todo, records,
      zone_todo, a_records, counts, summary, calls, log, entry, history>>
vars ==
    <<fn_args, fn_result, cf_zones, cf_records, cf_serial, edits, args, pc, zones, domain_to_zone,
      todo, records, zone_todo, a_records, counts, summary, calls, log, entry, history,
      config, main_pc, cycle, cycle_log, ip_queries, exit_code>>

(***************************************************************************)
(* Strings                                                                 *)
(***************************************************************************)
None == <<"None">>

\* str.strip() removes leading and trailing whitespace
IsSpace(c) == c \in {" ", "\t", "\n"}

RECURSIVE LStrip(_)
LStrip(s) == IF s # <<>> /\ IsSpace(Head(s)) THEN LStrip(Tail(s)) ELSE s

RECURSIVE RStrip(_)
RStrip(s) == IF s # <<>> /\ IsSpace(s[Len(s)]) THEN RStrip(SubSeq(s, 1, Len(s) - 1)) ELSE s

Strip(s) == RStrip(LStrip(s))

\* `sub in s`
Contains(s, sub) == \E i \in 0..(Len(s) - Len(sub)) : SubSeq(s, i + 1, i + Len(sub)) = sub

\* `value or ""` for an optional string
OrEmpty(v) == IF v = None THEN <<>> ELSE v

\* str(value) for an optional string
Str(v) == IF v = None THEN <<"N", "o", "n", "e">> ELSE v

\* str.lower(), on the ASCII letters
UpperLetters ==
    <<"A","B","C","D","E","F","G","H","I","J","K","L","M",
      "N","O","P","Q","R","S","T","U","V","W","X","Y","Z">>

LowerLetters ==
    <<"a","b","c","d","e","f","g","h","i","j","k","l","m",
      "n","o","p","q","r","s","t","u","v","w","x","y","z">>

LowerChar(c) ==
    IF \E i \in 1..26 : UpperLetters[i] = c
    THEN LowerLetters[CHOOSE i \in 1..26 : UpperLetters[i] = c]
    ELSE c

Lower(s) == [i \in 1..Len(s) |-> LowerChar(s[i])]

\* s.endswith(suffix)
EndsWith(s, suffix) ==
    /\ Len(suffix) <= Len(s)
    /\ SubSeq(s, Len(s) - Len(suffix) + 1, Len(s)) = suffix

MANAGED_MARKER ==
    <<"m","a","n","a","g","e","d","-","b","y","=","d","d","n","s","-",
      "t","r","a","e","f","i","k","-","s","y","n","c">>

(***************************************************************************)
(* The state in which no call of sync_domains is modelled.                 *)
(***************************************************************************)
ZeroCounts == [creates |-> 0, updates |-> 0, noops |-> 0, deletes |-> 0, skipped |-> 0]

NoSync ==
    /\ cf_zones = <<>> /\ cf_records = {} /\ cf_serial = 0 /\ edits = <<>>
    /\ args = None /\ pc = "idle"
    /\ zones = <<>> /\ domain_to_zone = <<>> /\ todo = <<>> /\ records = <<>>
    /\ zone_todo = <<>> /\ a_records = <<>> /\ counts = ZeroCounts
    /\ summary = None /\ calls = <<>> /\ log = <<>> /\ entry = {} /\ history = <<>>

\* main is not running
NoMain ==
    /\ config = None /\ main_pc = "off" /\ cycle = 0 /\ cycle_log = <<>>
    /\ ip_queries = <<>> /\ exit_code = -1

(***************************************************************************)
(* sync_engine._compose_comment                                            *)
(***************************************************************************)
\* a plausible bug: the marker is appended without looking for it first
_compose_comment_always_appends(existing_comment) ==
    LET current == Strip(OrEmpty(existing_comment))
    IN  IF current = <<>> THEN MANAGED_MARKER
        ELSE current \o <<" ", "|", " ">> \o MANAGED_MARKER

\* a plausible bug: the comment is not trimmed
_compose_comment_untrimmed(existing_comment) ==
    LET current == OrEmpty(existing_comment)
    IN  IF current = <<>> THEN MANAGED_MARKER
        ELSE IF Contains(current, MANAGED_MARKER) THEN current
        ELSE current \o <<" ", "|", " ">> \o MANAGED_MARKER

_compose_comment(existing_comment) ==
    LET current == Strip(OrEmpty(existing_comment))
    IN  IF current = <<>> THEN MANAGED_MARKER
        ELSE IF Contains(current, MANAGED_MARKER) THEN current
        ELSE current \o <<" ", "|", " ">> \o MANAGED_MARKER

(***************************************************************************)
(* cloudflare_client.CloudflareClient.find_best_zone_match                 *)
(* A zone is a dict with the keys id and name; a missing key reads as "".  *)
(* A ZoneMatch is the pair <<zone_id, zone_name>>.                         *)
(***************************************************************************)
\* a plausible bug: the first matching zone wins, whatever its length
BestOfFirstMatch(best, score, match) ==
    IF best = None THEN <<score, match>> ELSE best

\* `if best is None or score > best[0]: best = (score, match)`
BestOf(best, score, match) ==
    IF best = None \/ score > best[1] THEN <<score, match>> ELSE best

RECURSIVE ZoneLoop(_, _, _)
ZoneLoop(domain, zone_list, best) ==
    IF zone_list = <<>> THEN best
    ELSE LET zone == Head(zone_list)
             zone_name == Lower(zone.name)
             zone_id == zone.id
             matches == domain = zone_name \/ EndsWith(domain, <<".">> \o zone_name)
         IN  ZoneLoop(domain, Tail(zone_list),
                      IF zone_name = <<>> \/ zone_id = <<>> THEN best
                      ELSE IF matches THEN BestOf(best, Len(zone_name), <<zone_id, zone_name>>)
                      ELSE best)

find_best_zone_match(domain, zone_list) ==
    LET best == ZoneLoop(domain, zone_list, None)
    IN  IF best # None THEN best[2] ELSE None

(***************************************************************************)
(* Hostnames and zones the checks range over.  example.com is written      *)
(* e.c, sub.example.com s.e.c, other.net o.n.  In Python's order           *)
(* a.o.n < a.s.e.c < b.e.c < be.c < s.e.c.                                 *)
(***************************************************************************)
HostASub == <<"a", ".", "s", ".", "e", ".", "c">>
HostSub == <<"s", ".", "e", ".", "c">>
HostB == <<"b", ".", "e", ".", "c">>
HostBe == <<"b", "e", ".", "c">>
HostOther == <<"a", ".", "o", ".", "n">>

ZoneExample == [id |-> <<"z", "1">>, name |-> <<"e", ".", "c">>]
ZoneSub == [id |-> <<"z", "2">>, name |-> HostSub]
ZoneTld == [id |-> <<"z", "3">>, name |-> <<"c">>]
ZoneNet == [id |-> <<"z", "4">>, name |-> <<"x", ".", "n">>]
ZoneExampleTwin == [id |-> <<"z", "5">>, name |-> <<"e", ".", "c">>]

MatcherHosts == {HostASub, HostSub, HostB, HostBe, HostOther}
MatcherZones == {ZoneExample, ZoneSub, ZoneTld, ZoneNet, ZoneExampleTwin}

MaxZones == 3

\* the lists of at most n distinct members of S, in every order
ListsOf(S, n) ==
    { l \in UNION { [1..k -> S] : k \in 0..n } :
        \A i \in 1..Len(l) : \A j \in 1..Len(l) : i # j => l[i] # l[j] }

(***************************************************************************)
(* Specification of the zone matcher: a hostname and a zone list are       *)
(* drawn and matched.                                                      *)
(***************************************************************************)
InitMatcher ==
    /\ fn_args \in { [fn |-> "find_best_zone_match", domain |-> d, zones |-> zs] :
                        d \in MatcherHosts, zs \in ListsOf(MatcherZones, MaxZones) }
    /\ fn_result = <<>>
    /\ NoSync
    /\ NoMain

Match ==
    /\ fn_args.fn = "find_best_zone_match"
    /\ Len(fn_result) = 0
    /\ fn_result' = <<find_best_zone_match(fn_args.domain, fn_args.zones)>>
    /\ UNCHANGED <<fn_args, main_vars, sync_vars>>

NextMatcher == Match

SpecMatcher == InitMatcher /\ [][NextMatcher]_vars

\* the hostname equals the zone name or ends with "." + zone name
ZoneMatches(hostname, zone) ==
    \/ hostname = zone.name
    \/ /\ Len(hostname) > Len(zone.name)
       /\ hostname[Len(hostname) - Len(zone.name)] = "."
       /\ \A i \in 1..Len(zone.name) :
             hostname[Len(hostname) - Len(zone.name) + i] = zone.name[i]

Matched == fn_args.fn = "find_best_zone_match" /\ Len(fn_result) = 1
ListedZones == { fn_args.zones[i] : i \in 1..Len(fn_args.zones) }
MatchingZones == { z \in ListedZones : ZoneMatches(fn_args.domain, z) }

\* C3: when some zone of the list matches the hostname, find_best_zone_match
\* returns the id and name of a zone of the list that matches it and whose name
\* is at least as long as the name of every matching zone of the list; for the
\* zones example.com and sub.example.com and the hostname a.sub.example.com that
\* is sub.example.com, in either order of the list.
C3_LongestSuffixZone ==
    (Matched /\ MatchingZones # {}) =>
        /\ fn_result[1] # None
        /\ \E z \in MatchingZones :
              /\ fn_result[1] = <<z.id, z.name>>
              /\ \A other \in MatchingZones : Len(z.name) >= Len(other.name)
        /\ (fn_args.domain = HostASub /\ ListedZones = {ZoneExample, ZoneSub}) =>
              fn_result[1] = <<ZoneSub.id, ZoneSub.name>>

\* a.sub.example.com has been matched against a list that names example.com
\* before sub.example.com
C3_Witness ==
    /\ Matched
    /\ fn_args.domain = HostASub
    /\ fn_args.zones = <<ZoneExample, ZoneSub>>
    /\ fn_result[1] = <<ZoneSub.id, ZoneSub.name>>

(***************************************************************************)
(* Comments the checks range over: None, and every concatenation of at     *)
(* most MaxPieces pieces (whitespace, human text, the separator, the       *)
(* marker, a proper prefix of the marker).                                 *)
(***************************************************************************)
MaxPieces == 3

CommentPieces ==
    { <<" ">>, <<"\t">>, <<"x">>, <<"|">>, MANAGED_MARKER, SubSeq(MANAGED_MARKER, 1, 10) }

RECURSIVE Flatten(_)
Flatten(ps) == IF ps = <<>> THEN <<>> ELSE Head(ps) \o Flatten(Tail(ps))

CommentPool ==
    {None} \cup { Flatten(ps) : ps \in UNION { [1..n -> CommentPieces] : n \in 0..MaxPieces } }

(***************************************************************************)
(* Specification of the marker composer: a comment is drawn, composed,     *)
(* and the result composed again.                                          *)
(***************************************************************************)
InitCompose ==
    /\ fn_args \in { [fn |-> "compose_comment", existing_comment |-> x] : x \in CommentPool }
    /\ fn_result = <<>>
    /\ NoSync
    /\ NoMain

Compose ==
    /\ fn_args.fn = "compose_comment"
    /\ Len(fn_result) = 0
    /\ fn_result' = <<_compose_comment(fn_args.existing_comment)>>
    /\ UNCHANGED <<fn_args, main_vars, sync_vars>>

ComposeAgain ==
    /\ fn_args.fn = "compose_comment"
    /\ Len(fn_result) = 1
    /\ fn_result' = Append(fn_result, _compose_comment(fn_result[1]))
    /\ UNCHANGED <<fn_args, main_vars, sync_vars>>

NextCompose == Compose \/ ComposeAgain

SpecCompose == InitCompose /\ [][NextCompose]_vars

(***************************************************************************)
(* Claims about the marker composer                                        *)
(***************************************************************************)
\* x without its leading and trailing whitespace, stated without Strip: the
\* stretch of x from its first to its last character that is no whitespace
TrimOf(x) ==
    LET solid == { k \in 1..Len(x) : ~IsSpace(x[k]) }
    IN  IF solid = {} THEN <<>>
        ELSE SubSeq(x, CHOOSE k \in solid : \A m \in solid : k <= m,
                       CHOOSE k \in solid : \A m \in solid : k >= m)

\* the number of places of s where sub occurs
Occurrences(s, sub) ==
    Cardinality({ i \in 0..(Len(s) - Len(sub)) : SubSeq(s, i + 1, i + Len(sub)) = sub })

ComposedOnce == fn_args.fn = "compose_comment" /\ Len(fn_result) >= 1
ComposedTwice == fn_args.fn = "compose_comment" /\ Len(fn_result) = 2
GivenComment == OrEmpty(fn_args.existing_comment)

\* C9, as stated: composing is idempotent, and a comment that already contains
\* the marker is returned unchanged, with no second marker added.
C9_AsStated ==
    /\ ComposedTwice => fn_result[2] = fn_result[1]
    /\ (ComposedOnce /\ Contains(GivenComment, MANAGED_MARKER)) =>
          /\ fn_result[1] = GivenComment
          /\ Occurrences(fn_result[1], MANAGED_MARKER) = Occurrences(GivenComment, MANAGED_MARKER)

\* C9, amended: composing is idempotent for every comment (None, empty,
\* whitespace-only, unmarked, marked); a comment that already contains the marker
\* is returned trimmed of its surrounding whitespace and otherwise unchanged, so
\* it is returned as it is exactly when it has no surrounding whitespace, and the
\* number of markers in it stays what it was.
C9_ComposeIdempotent ==
    /\ ComposedTwice => fn_result[2] = fn_result[1]
    /\ (ComposedOnce /\ Contains(GivenComment, MANAGED_MARKER)) =>
          /\ fn_result[1] = TrimOf(GivenComment)
          /\ TrimOf(GivenComment) = GivenComment => fn_result[1] = GivenComment
          /\ Occurrences(fn_result[1], MANAGED_MARKER) = Occurrences(GivenComment, MANAGED_MARKER)
    /\ (ComposedOnce /\ ~Contains(GivenComment, MANAGED_MARKER)) =>
          Occurrences(fn_result[1], MANAGED_MARKER) = 1

\* a marked comment with human text and surrounding whitespace, composed twice
C9_Witness ==
    /\ ComposedTwice
    /\ Contains(GivenComment, MANAGED_MARKER)
    /\ Contains(GivenComment, <<"x">>)
    /\ IsSpace(GivenComment[1])

\* C10: for a comment whose trimmed text is non-empty and lacks the marker the
\* result is the trimmed text, then " | ", then the marker; for None, an empty or
\* a whitespace-only comment it is the marker alone; every result contains the
\* marker.
C10_ComposePreservesText ==
    ComposedOnce =>
        LET t == TrimOf(GivenComment)
        IN  /\ Contains(fn_result[1], MANAGED_MARKER)
            /\ t = <<>> => fn_result[1] = MANAGED_MARKER
            /\ (t # <<>> /\ ~Contains(t, MANAGED_MARKER)) =>
                   fn_result[1] = t \o <<" ", "|", " ">> \o MANAGED_MARKER

\* an unmarked human comment with whitespace on both sides has been composed
C10_Witness ==
    /\ ComposedOnce
    /\ Len(GivenComment) >= 3
    /\ IsSpace(GivenComment[1]) /\ IsSpace(GivenComment[Len(GivenComment)])
    /\ Contains(GivenComment, <<"x">>)
    /\ ~Contains(GivenComment, MANAGED_MARKER)

(***************************************************************************)
(* Python's order of strings, sorted() and dict.get                        *)
(***************************************************************************)
\* the printable ASCII characters, from code point 32 on (the backslash and the
\* backtick, which no hostname or record id holds, are left as gaps)
Ascii ==
    <<" ","!","\"","#","$","%","&","'","(",")","*","+",",","-",".","/",
      "0","1","2","3","4","5","6","7","8","9",":",";","<","=",">","?",
      "@","A","B","C","D","E","F","G","H","I","J","K","L","M","N","O",
      "P","Q","R","S","T","U","V","W","X","Y","Z","[","<backslash>","]","^","_",
      "<backtick>","a","b","c","d","e","f","g","h","i","j","k","l","m","n","o",
      "p","q","r","s","t","u","v","w","x","y","z","{","|","}","~">>

Ord(c) == 31 + (CHOOSE i \in 1..Len(Ascii) : Ascii[i] = c)

\* a < b for two strings: at the first place where they differ a has the smaller
\* code point, or a ends there
StrLess(a, b) ==
    \E k \in 1..Len(b) :
        /\ k <= Len(a) + 1
        /\ \A i \in 1..(k - 1) : a[i] = b[i]
        /\ (k = Len(a) + 1 \/ Ord(a[k]) < Ord(b[k]))

\* a plausible bug: the hostnames are taken in descending order
RECURSIVE SortedSetDescending(_)
SortedSetDescending(S) ==
    IF S = {} THEN <<>>
    ELSE LET greatest == CHOOSE x \in S : \A y \in S \ {x} : StrLess(y, x)
         IN  <<greatest>> \o SortedSetDescending(S \ {greatest})

\* sorted(S) for a set S of strings
RECURSIVE SortedSet(_)
SortedSet(S) ==
    IF S = {} THEN <<>>
    ELSE LET least == CHOOSE x \in S : \A y \in S \ {x} : StrLess(x, y)
         IN  <<least>> \o SortedSet(S \ {least})

\* record.get(key, default)
Get(record, key, default) == IF key \in DOMAIN record THEN record[key] ELSE default

(***************************************************************************)
(* sync_engine._pick_record                                                *)
(***************************************************************************)
\* `key=lambda record: str(record.get("id", ""))`
IdKey(record) == Str(Get(record, "id", <<>>))

\* sorted() is stable: r goes behind every record whose key is not greater
RECURSIVE InsertById(_, _)
InsertById(sorted, r) ==
    IF sorted = <<>> THEN <<r>>
    ELSE IF StrLess(IdKey(r), IdKey(Head(sorted))) THEN <<r>> \o sorted
    ELSE <<Head(sorted)>> \o InsertById(Tail(sorted), r)

RECURSIVE SortedById(_)
SortedById(rs) ==
    IF rs = <<>> THEN <<>>
    ELSE InsertById(SortedById(SubSeq(rs, 1, Len(rs) - 1)), rs[Len(rs)])

\* a plausible bug: the first record the provider returned is taken
_pick_record_first_returned(rs) == rs[1]

_pick_record(rs) == SortedById(rs)[1]

(***************************************************************************)
(* The provider behind CloudflareClient: list_a_records answers with the   *)
(* zone's A records (those of the given name when a name is given) in an   *)
(* order of its own; create, update and delete apply the request as sent.  *)
(***************************************************************************)
ProviderRecords(zone_id, name) ==
    { r \in cf_records : r.zone_id = zone_id /\ (name = None \/ r.name = name) }

\* the lists that hold every member of S once
Orders(S) ==
    { l \in [1..Cardinality(S) -> S] : \A i, j \in 1..Cardinality(S) : i # j => l[i] # l[j] }

Digits == <<"1", "2", "3", "4", "5", "6", "7", "8", "9">>

\* the id the provider gives to the next record it creates
NewRecordId == <<"n", Digits[cf_serial + 1]>>

(***************************************************************************)
(* sync_engine.sync_domains                                                *)
(***************************************************************************)
\* lines 45-52: the matching loop over sorted(domains);
\* acc = <<skipped, domain_to_zone, log>>
\* a plausible bug: a hostname without a zone is kept, in the first zone listed
SkipIntoFirstZone(acc, domain, zone_list) ==
    IF zone_list = <<>> THEN acc
    ELSE <<acc[1], [d \in DOMAIN acc[2] \cup {domain} |->
                       IF d = domain THEN <<zone_list[1].id, zone_list[1].name>> ELSE acc[2][d]],
           acc[3]>>

\* lines 48-51
Skip(acc, domain, zone_list) ==
    <<acc[1] + 1, acc[2], Append(acc[3], [event |-> "skip", domain |-> domain])>>

RECURSIVE MatchLoop(_, _, _)
MatchLoop(ds, zone_list, acc) ==
    IF ds = <<>> THEN acc
    ELSE LET domain == Head(ds)
             match == find_best_zone_match(domain, zone_list)
         IN  MatchLoop(Tail(ds), zone_list,
                 IF match = None
                 THEN Skip(acc, domain, zone_list)
                 ELSE <<acc[1], [d \in DOMAIN acc[2] \cup {domain} |->
                                     IF d = domain THEN match ELSE acc[2][d]], acc[3]>>)

\* a plausible bug: the zones are scanned whether or not cleanup is asked for
AfterSyncLoopUngated(zone_list) ==
    IF zone_list # <<>> THEN "cleanup" ELSE "return"

\* where the call goes when the per-hostname loop is over (line 94)
AfterSyncLoop(zone_list) ==
    IF args.cleanup_stale /\ zone_list # <<>> THEN "cleanup" ELSE "return"

\* line 42
ListZones ==
    /\ pc = "list_zones"
    /\ zones' = cf_zones
    /\ calls' = Append(calls, [op |-> "list_zones"])
    /\ pc' = "match"
    /\ UNCHANGED <<fn_vars, main_vars, provider_vars, args, domain_to_zone, todo, records, zone_todo,
                   a_records, counts, summary, log, entry, history>>

\* lines 43-54
MatchZones ==
    /\ pc = "match"
    /\ LET done == MatchLoop(SortedSet(args.domains), zones, <<0, <<>>, log>>)
       IN  /\ counts' = [counts EXCEPT !.skipped = done[1]]
           /\ domain_to_zone' = done[2]
           /\ log' = done[3]
           /\ todo' = SortedSet(DOMAIN done[2])
           /\ zone_todo' = zones
           /\ pc' = IF DOMAIN done[2] # {} THEN "fetch" ELSE AfterSyncLoop(zones)
    /\ UNCHANGED <<fn_vars, main_vars, provider_vars, args, zones, records, a_records, summary, calls,
                   entry, history>>

\* line 56
FetchRecords ==
    /\ pc = "fetch"
    /\ LET domain == Head(todo)
           zone_id == domain_to_zone[domain][1]
       IN  \E result \in Orders(ProviderRecords(zone_id, domain)) :
              /\ records' = SelectSeq(result, LAMBDA record : Get(record, "name", None) = domain)
              /\ calls' = Append(calls, [op |-> "list_a_records", zone_id |-> zone_id,
                                         name |-> domain, result |-> result])
    /\ pc' = "decide"
    /\ UNCHANGED <<fn_vars, main_vars, provider_vars, args, zones, domain_to_zone, todo, zone_todo,
                   a_records, counts, summary, log, entry, history>>

\* the loop goes on to the next hostname, or ends
NextHostname ==
    /\ todo' = Tail(todo)
    /\ pc' = IF Tail(todo) # <<>> THEN "fetch" ELSE AfterSyncLoop(zones)

\* a plausible bug: a record with the right address is left alone
IsNoOpByAddress(current_ip, comment, target) == current_ip = args.public_ip

\* line 77
IsNoOp(current_ip, comment, target) ==
    current_ip = args.public_ip /\ comment = Strip(OrEmpty(Get(target, "comment", None)))

\* a plausible bug: a dry run mutates all the same
MutatesAlways == TRUE

\* `if not dry_run:` (lines 60, 84, 110)
Mutates == ~args.dry_run

\* a plausible bug: the record is created with a fixed flag
CreateRequestUnproxied(zone_id, domain) ==
    [op |-> "create_a_record", zone_id |-> zone_id, name |-> domain, ip |-> args.public_ip,
     proxied |-> FALSE, comment |-> MANAGED_MARKER]

\* lines 61-67
CreateRequest(zone_id, domain) ==
    [op |-> "create_a_record", zone_id |-> zone_id, name |-> domain, ip |-> args.public_ip,
     proxied |-> args.default_proxied, comment |-> MANAGED_MARKER]

\* lines 57-68
CreateRecord ==
    /\ pc = "decide"
    /\ records = <<>>
    /\ LET domain == Head(todo)
           zone_id == domain_to_zone[domain][1]
       IN  /\ counts' = [counts EXCEPT !.creates = @ + 1]
           /\ log' = Append(log, [event |-> "create", domain |-> domain, ip |-> args.public_ip])
           /\ IF Mutates
              THEN LET request == CreateRequest(zone_id, domain)
                   IN  /\ calls' = Append(calls, request)
                       /\ cf_records' = cf_records \cup
                              {[id |-> NewRecordId, zone_id |-> request.zone_id,
                                name |-> request.name, content |-> request.ip,
                                proxied |-> request.proxied, comment |-> request.comment]}
                       /\ cf_serial' = cf_serial + 1
              ELSE UNCHANGED <<calls, cf_records, cf_serial>>
    /\ NextHostname
    /\ UNCHANGED <<fn_vars, main_vars, cf_zones, edits, args, zones, domain_to_zone, records, zone_todo,
                   a_records, summary, entry, history>>

\* the warning of lines 70-71
WarnMultiple(lines, domain) ==
    IF Len(records) > 1 THEN Append(lines, [event |-> "multiple", domain |-> domain]) ELSE lines

\* lines 70-80
NoChange ==
    /\ pc = "decide"
    /\ records # <<>>
    /\ LET domain == Head(todo)
           target == _pick_record(records)
           current_ip == Str(Get(target, "content", <<>>))
           comment == _compose_comment(Get(target, "comment", None))
       IN  /\ IsNoOp(current_ip, comment, target)
           /\ counts' = [counts EXCEPT !.noops = @ + 1]
           /\ log' = Append(WarnMultiple(log, domain),
                            [event |-> "no_change", domain |-> domain, ip |-> args.public_ip])
    /\ NextHostname
    /\ UNCHANGED <<fn_vars, main_vars, provider_vars, args, zones, domain_to_zone, records, zone_todo,
                   a_records, summary, calls, entry, history>>

\* a plausible bug: the configured default replaces the record's flag
UpdateRequestDefaultProxied(zone_id, domain, target) ==
    [op |-> "update_a_record", zone_id |-> zone_id, record_id |-> Str(target.id),
     name |-> domain, ip |-> args.public_ip, proxied |-> args.default_proxied,
     comment |-> _compose_comment(Get(target, "comment", None))]

\* a plausible bug: the update sends the record's own address back
UpdateRequestKeepsAddress(zone_id, domain, target) ==
    [op |-> "update_a_record", zone_id |-> zone_id, record_id |-> Str(target.id),
     name |-> domain, ip |-> Str(Get(target, "content", <<>>)),
     proxied |-> Get(target, "proxied", args.default_proxied),
     comment |-> _compose_comment(Get(target, "comment", None))]

\* lines 74-75 and 85-92
UpdateRequest(zone_id, domain, target) ==
    [op |-> "update_a_record", zone_id |-> zone_id, record_id |-> Str(target.id),
     name |-> domain, ip |-> args.public_ip,
     proxied |-> Get(target, "proxied", args.default_proxied),
     comment |-> _compose_comment(Get(target, "comment", None))]

\* lines 70-77 and 82-92
UpdateRecord ==
    /\ pc = "decide"
    /\ records # <<>>
    /\ LET domain == Head(todo)
           zone_id == domain_to_zone[domain][1]
           target == _pick_record(records)
           current_ip == Str(Get(target, "content", <<>>))
           comment == _compose_comment(Get(target, "comment", None))
       IN  /\ ~IsNoOp(current_ip, comment, target)
           /\ counts' = [counts EXCEPT !.updates = @ + 1]
           /\ log' = Append(WarnMultiple(log, domain),
                            [event |-> "update", domain |-> domain, current_ip |-> current_ip,
                             ip |-> args.public_ip])
           /\ IF Mutates
              THEN LET request == UpdateRequest(zone_id, domain, target)
                   IN  /\ calls' = Append(calls, request)
                       /\ cf_records' =
                              { IF r.zone_id = request.zone_id /\ r.id = request.record_id
                                THEN [r EXCEPT !.name = request.name, !.content = request.ip,
                                               !.proxied = request.proxied,
                                               !.comment = request.comment]
                                ELSE r : r \in cf_records }
              ELSE UNCHANGED <<calls, cf_records>>
    /\ NextHostname
    /\ UNCHANGED <<fn_vars, main_vars, cf_zones, edits, cf_serial, args, zones, domain_to_zone,
                   records, zone_todo, a_records, summary, entry, history>>

\* the cleanup loop goes on to the next zone, or ends (lines 96, 113)
NextZone ==
    /\ zone_todo' = Tail(zone_todo)
    /\ pc' = IF Tail(zone_todo) # <<>> THEN "cleanup" ELSE "return"

\* lines 96-100
ScanZone ==
    /\ pc = "cleanup"
    /\ LET zone_id == Str(Get(Head(zone_todo), "id", <<>>))
       IN  IF zone_id = <<>>
           THEN /\ NextZone
                /\ UNCHANGED <<a_records, calls>>
           ELSE \E result \in Orders(ProviderRecords(zone_id, None)) :
                   /\ a_records' = result
                   /\ calls' = Append(calls, [op |-> "list_a_records", zone_id |-> zone_id,
                                              name |-> None, result |-> result])
                   /\ IF result = <<>> THEN NextZone
                      ELSE pc' = "prune" /\ UNCHANGED zone_todo
    /\ UNCHANGED <<fn_vars, main_vars, provider_vars, args, zones, domain_to_zone, todo, records, counts,
                   summary, log, entry, history>>

\* the loop over a_records goes on to the next record, or ends
NextRecord ==
    /\ a_records' = Tail(a_records)
    /\ IF Tail(a_records) # <<>> THEN pc' = "prune" /\ UNCHANGED zone_todo ELSE NextZone

\* a plausible bug: ownership goes by name, the marker is not looked at
IsStaleByName(record) ==
    Lower(Str(Get(record, "name", <<>>))) \notin args.domains

\* lines 102-107: is the record of the scan a managed record that is not desired?
IsStale(record) ==
    LET name == Lower(Str(Get(record, "name", <<>>)))
        comment == Str(Get(record, "comment", <<>>))
        desired == args.domains
    IN  Contains(comment, MANAGED_MARKER) /\ name \notin desired

\* lines 101-107: `continue`
KeepRecord ==
    /\ pc = "prune"
    /\ ~IsStale(Head(a_records))
    /\ NextRecord
    /\ UNCHANGED <<fn_vars, main_vars, provider_vars, args, zones, domain_to_zone, todo, records, counts,
                   summary, calls, log, entry, history>>

\* lines 101-111
DeleteRecord ==
    /\ pc = "prune"
    /\ IsStale(Head(a_records))
    /\ LET record == Head(a_records)
           zone_id == Str(Get(Head(zone_todo), "id", <<>>))
       IN  /\ counts' = [counts EXCEPT !.deletes = @ + 1]
           /\ log' = Append(log, [event |-> "delete",
                                  name |-> Lower(Str(Get(record, "name", <<>>)))])
           /\ IF Mutates
              THEN /\ calls' = Append(calls, [op |-> "delete_record", zone_id |-> zone_id,
                                              record_id |-> Str(record.id)])
                   /\ cf_records' = { r \in cf_records :
                                         ~(r.zone_id = zone_id /\ r.id = Str(record.id)) }
              ELSE UNCHANGED <<calls, cf_records>>
    /\ NextRecord
    /\ UNCHANGED <<fn_vars, main_vars, cf_zones, edits, cf_serial, args, zones, domain_to_zone, todo,
                   records, summary, entry, history>>

\* line 113
Return ==
    /\ pc = "return"
    /\ summary' = counts
    /\ pc' = "done"
    /\ UNCHANGED <<fn_vars, main_vars, provider_vars, args, local_vars, calls, log, entry, history>>

SyncStep ==
    \/ ListZones
    \/ MatchZones
    \/ FetchRecords
    \/ CreateRecord
    \/ NoChange
    \/ UpdateRecord
    \/ ScanZone
    \/ KeepRecord
    \/ DeleteRecord
    \/ Return

(***************************************************************************)
(* The provider states and the arguments the calls of sync_domains range   *)
(* over.  The provider holds at most MaxRecords A records at first; a      *)
(* record's name lies in its zone, and names are lower-case, as the        *)
(* provider stores them.                                                   *)
(***************************************************************************)
MaxRecords == 2

\* in Python's order r1 < r10 < r2 < r3
RecordIds == << <<"r", "1", "0">>, <<"r", "2">>, <<"r", "1">>, <<"r", "3">> >>

IpOld == <<"1", ".", "1", ".", "1", ".", "1">>
IpNew == <<"2", ".", "2", ".", "2", ".", "2">>

SyncHosts == {HostASub, HostB, HostOther}
SyncZones == <<ZoneExample, ZoneSub>>

\* where a record can be: b.e.c in e.c; a.s.e.c in s.e.c or in e.c
Places ==
    { [zone_id |-> ZoneExample.id, name |-> HostB],
      [zone_id |-> ZoneExample.id, name |-> HostASub],
      [zone_id |-> ZoneSub.id, name |-> HostASub] }

\* no comment (None), a human's comment, the marker, the marker behind a blank
PaddedMarker == <<" ">> \o MANAGED_MARKER
DifferComments == { <<"x">>, MANAGED_MARKER, PaddedMarker }
OwnerComments == { None, <<"x">>, PaddedMarker }

Shapes(places, contents, flags, comments) ==
    { [zone_id |-> p.zone_id, name |-> p.name, content |-> c, proxied |-> f, comment |-> k] :
         p \in places, c \in contents, f \in flags, k \in comments }

\* the sets of at most MaxRecords records of the given shapes, with ids in
\* every order
ProviderStates(shapes) ==
    UNION { { { [id |-> RecordIds[i]] @@ f[i] : i \in 1..n } : f \in [1..n -> shapes] } :
              n \in 0..MaxRecords }

CallArgs(domain_sets, ips, defaults, dry, cleanup) ==
    { [domains |-> ds, public_ip |-> ip, default_proxied |-> dp, dry_run |-> d,
       cleanup_stale |-> c] :
         ds \in domain_sets, ip \in ips, dp \in defaults, d \in dry, c \in cleanup }

\* sync_domains is called (lines 32-43)
Called(a) ==
    /\ args = a
    /\ pc = "list_zones"
    /\ zones = <<>> /\ domain_to_zone = <<>> /\ todo = <<>> /\ records = <<>>
    /\ zone_todo = <<>> /\ a_records = <<>> /\ counts = ZeroCounts
    /\ summary = None /\ calls = <<>> /\ log = <<>>

SyncInit(zone_lists, shapes, call_args) ==
    /\ fn_args = [fn |-> "sync_domains"]
    /\ fn_result = <<>>
    /\ cf_zones \in zone_lists
    /\ cf_records \in ProviderStates(shapes)
    /\ cf_serial = 0
    /\ edits = <<>>
    /\ \E a \in call_args : Called(a)
    /\ entry = cf_records
    /\ history = <<>>
    /\ NoMain

(***************************************************************************)
(* Specification of one call of sync_domains on a provider whose records   *)
(* differ in zone, name and comment: who owns which record.                *)
(***************************************************************************)
Init ==
    SyncInit({SyncZones},
             Shapes(Places, {IpNew}, {FALSE}, OwnerComments),
             CallArgs(SUBSET SyncHosts \ {{}}, {IpNew}, {FALSE}, {FALSE}, BOOLEAN))

Next == SyncStep

Spec == Init /\ [][Next]_vars

(***************************************************************************)
(* Specification of one call of sync_domains without cleanup on a provider *)
(* whose records all bear one hostname and differ in address, proxied flag *)
(* and comment: what is done about a hostname.                             *)
(***************************************************************************)
InitDiffer ==
    SyncInit({SyncZones},
             Shapes({[zone_id |-> ZoneExample.id, name |-> HostB]}, {IpOld, IpNew}, BOOLEAN,
                    DifferComments),
             CallArgs({{HostB}, SyncHosts}, {IpNew}, BOOLEAN, {FALSE}, {FALSE}))

NextDiffer ==
    \/ ListZones
    \/ MatchZones
    \/ FetchRecords
    \/ CreateRecord
    \/ NoChange
    \/ UpdateRecord
    \/ Return

SpecDiffer == InitDiffer /\ [][NextDiffer]_vars

(***************************************************************************)
(* Specification of a dry run of sync_domains followed by the same call    *)
(* with dry_run off, on the provider as the dry run left it.               *)
(***************************************************************************)
InitDryRun ==
    SyncInit({SyncZones},
             Shapes(Places, {IpNew}, {FALSE}, OwnerComments),
             CallArgs({{HostB}, {HostASub, HostOther}, SyncHosts}, {IpNew}, {FALSE}, {TRUE},
                      BOOLEAN))

\* sync_domains has returned and is called once more, with dry_run off
\* (lines 32-43); what the first call did is kept in history
CallAgain ==
    /\ pc = "done"
    /\ history = <<>>
    /\ history' = <<[args |-> args, summary |-> summary, entry |-> entry,
                     cf_records |-> cf_records,
                     calls |-> SelectSeq(calls, LAMBDA call :
                                  call.op \notin {"list_zones", "list_a_records"})]>>
    /\ args' = [args EXCEPT !.dry_run = FALSE]
    /\ pc' = "list_zones"
    /\ zones' = <<>> /\ domain_to_zone' = <<>> /\ todo' = <<>> /\ records' = <<>>
    /\ zone_todo' = <<>> /\ a_records' = <<>> /\ counts' = ZeroCounts
    /\ summary' = None /\ calls' = <<>> /\ log' = <<>>
    /\ entry' = cf_records
    /\ UNCHANGED <<fn_vars, main_vars, provider_vars>>

NextDryRun ==
    \/ SyncStep
    \/ CallAgain

SpecDryRun == InitDryRun /\ [][NextDryRun]_vars

(***************************************************************************)
(* Specification of two cycles in a row: sync_domains is called with       *)
(* dry_run off and, once it has returned, called again with the same       *)
(* arguments on the provider as the first call left it.                    *)
(***************************************************************************)
RepeatPlaces ==
    { [zone_id |-> ZoneExample.id, name |-> HostB],
      [zone_id |-> ZoneSub.id, name |-> HostASub] }

InitRepeat ==
    SyncInit({SyncZones},
             Shapes(RepeatPlaces, {IpOld, IpNew}, {FALSE}, {<<"x">>, PaddedMarker}),
             CallArgs({{HostB}, {HostASub, HostOther}, SyncHosts}, {IpNew}, {FALSE}, {FALSE},
                      BOOLEAN))

\* the next cycle of main's loop: the same domains, IP and configuration
\* (main.py lines 70-80, 28-36)
CycleAgain ==
    /\ pc = "done"
    /\ history = <<>>
    /\ history' = <<[args |-> args, summary |-> summary, entry |-> entry,
                     cf_records |-> cf_records,
                     calls |-> SelectSeq(calls, LAMBDA call :
                                  call.op \notin {"list_zones", "list_a_records"})]>>
    /\ pc' = "list_zones"
    /\ zones' = <<>> /\ domain_to_zone' = <<>> /\ todo' = <<>> /\ records' = <<>>
    /\ zone_todo' = <<>> /\ a_records' = <<>> /\ counts' = ZeroCounts
    /\ summary' = None /\ calls' = <<>> /\ log' = <<>>
    /\ entry' = cf_records
    /\ UNCHANGED <<fn_vars, main_vars, provider_vars, args>>

NextRepeat ==
    \/ SyncStep
    \/ CycleAgain

SpecRepeat == InitRepeat /\ [][NextRepeat]_vars

(***************************************************************************)
(* Specification of two cycles with cleanup between which the proxy        *)
(* configuration changes: the second call of sync_domains has another set  *)
(* of hostnames, on the provider as the first call left it.                *)
(***************************************************************************)
ChangeDomains == { {HostB}, {HostASub}, {HostB, HostASub} }

InitChange ==
    SyncInit({SyncZones},
             Shapes(RepeatPlaces, {IpNew}, {FALSE}, OwnerComments),
             CallArgs(ChangeDomains, {IpNew}, {FALSE}, {FALSE}, {TRUE}))

\* the next cycle of main's loop: extract_domains_from_source reads the
\* configuration anew (main.py lines 70-80, 16, 28-36)
CycleAfterChange ==
    /\ pc = "done"
    /\ history = <<>>
    /\ history' = <<[args |-> args, summary |-> summary, entry |-> entry,
                     cf_records |-> cf_records,
                     calls |-> SelectSeq(calls, LAMBDA call :
                                  call.op \notin {"list_zones", "list_a_records"})]>>
    /\ \E ds \in ChangeDomains : args' = [args EXCEPT !.domains = ds]
    /\ pc' = "list_zones"
    /\ zones' = <<>> /\ domain_to_zone' = <<>> /\ todo' = <<>> /\ records' = <<>>
    /\ zone_todo' = <<>> /\ a_records' = <<>> /\ counts' = ZeroCounts
    /\ summary' = None /\ calls' = <<>> /\ log' = <<>>
    /\ entry' = cf_records
    /\ UNCHANGED <<fn_vars, main_vars, provider_vars>>

NextChange ==
    \/ SyncStep
    \/ CycleAfterChange

SpecChange == InitChange /\ [][NextChange]_vars

(***************************************************************************)
(* ip_resolver.resolve_public_ipv4                                         *)
(*                                                                         *)
(* What session.get(source) does is a response: a network failure          *)
(* (requests.RequestException), or a status code and a body.               *)
(***************************************************************************)
DecimalDigits == <<"0", "1", "2", "3", "4", "5", "6", "7", "8", "9">>

IsDigit(c) == \E i \in 1..10 : DecimalDigits[i] = c

DigitValue(c) == (CHOOSE i \in 1..10 : DecimalDigits[i] = c) - 1

\* s.split(".")
RECURSIVE SplitDots(_, _)
SplitDots(s, part) ==
    IF s = <<>> THEN <<part>>
    ELSE IF Head(s) = "." THEN <<part>> \o SplitDots(Tail(s), <<>>)
    ELSE SplitDots(Tail(s), Append(part, Head(s)))

RECURSIVE DecimalValue(_, _)
DecimalValue(s, acc) ==
    IF s = <<>> THEN acc ELSE DecimalValue(Tail(s), 10 * acc + DigitValue(Head(s)))

\* ipaddress.IPv4Address._parse_octet: one to three decimal digits, no leading
\* zero before another digit, at most 255
IsOctet(part) ==
    /\ Len(part) \in 1..3
    /\ \A i \in 1..Len(part) : IsDigit(part[i])
    /\ ~(Len(part) > 1 /\ part[1] = "0")
    /\ DecimalValue(part, 0) <= 255

\* ipaddress.IPv4Address(value) does not raise: four octets between dots
IsIPv4Address(value) ==
    LET octets == SplitDots(value, <<>>)
    IN  Len(octets) = 4 /\ \A i \in 1..4 : IsOctet(octets[i])

NetworkFailure == [failed |-> TRUE]
Response(status_code, text) == [failed |-> FALSE, status_code |-> status_code, text |-> text]

\* a plausible bug: the body is returned without being validated
AnswerUnvalidated(response) ==
    IF response.failed \/ response.status_code >= 400 THEN None ELSE Strip(response.text)

\* lines 28-32: the value one source gives, None when the try block raises
Answer(response) ==
    IF response.failed THEN None
    ELSE IF response.status_code >= 400 THEN None
    ELSE LET value == Strip(response.text)
         IN  IF IsIPv4Address(value) THEN value ELSE None

\* lines 26-39: the sources are asked in order; done = <<errors, queried>>
RECURSIVE ResolveLoop(_, _, _)
ResolveLoop(responses, source, done) ==
    IF source > Len(responses)
    THEN [raised |-> TRUE, value |-> None, errors |-> done[1], queried |-> done[2]]
    ELSE LET value == Answer(responses[source])
         IN  IF value # None
             THEN [raised |-> FALSE, value |-> value, errors |-> done[1],
                   queried |-> Append(done[2], source)]
             ELSE ResolveLoop(responses, source + 1,
                              <<Append(done[1], source), Append(done[2], source)>>)

resolve_public_ipv4(responses) == ResolveLoop(responses, 1, <<<<>>, <<>>>>)

MaxSources == 3

PaddedIp == <<" ">> \o IpNew \o <<"\n">>

SourceResponses ==
    { NetworkFailure,
      Response(200, IpOld),
      Response(200, PaddedIp),
      Response(200, <<"x">>),
      Response(200, <<"3", "0", "0", ".", "1", ".", "1", ".", "1">>),
      Response(200, <<"1", ".", "1", ".", "1">>),
      Response(200, <<>>),
      Response(503, IpOld) }

InitResolver ==
    /\ fn_args \in { [fn |-> "resolve_public_ipv4", responses |-> rs] :
                        rs \in UNION { [1..n -> SourceResponses] : n \in 0..MaxSources } }
    /\ fn_result = <<>>
    /\ NoSync
    /\ NoMain

Resolve ==
    /\ fn_args.fn = "resolve_public_ipv4"
    /\ Len(fn_result) = 0
    /\ fn_result' = <<resolve_public_ipv4(fn_args.responses)>>
    /\ UNCHANGED <<fn_args, main_vars, sync_vars>>

NextResolver == Resolve

SpecResolver == InitResolver /\ [][NextResolver]_vars

(***************************************************************************)
(* cloudflare_client.CloudflareClient._request                             *)
(*                                                                         *)
(* What session.request does at one attempt is a response: a network       *)
(* failure (requests.RequestException), or a status code and a JSON body.  *)
(***************************************************************************)
ApiResponse(status_code, data) == [failed |-> FALSE, status_code |-> status_code, data |-> data]

\* line 60
IsRetryableStatus(status_code) ==
    status_code = 429 \/ (500 <= status_code /\ status_code < 600)

\* lines 52-67: what one attempt comes to: the data, or the exception raised
\* in the try block
Attempt(response) ==
    IF response.failed THEN [ok |-> FALSE, error |-> "RequestException"]
    ELSE IF IsRetryableStatus(response.status_code)
    THEN [ok |-> FALSE, error |-> "CloudflareAPIError"]
    ELSE IF response.status_code >= 400 THEN [ok |-> FALSE, error |-> "HTTPError"]
    ELSE IF ~Get(response.data, "success", FALSE)
    THEN [ok |-> FALSE, error |-> "CloudflareAPIError"]
    ELSE [ok |-> TRUE, data |-> response.data]

\* a plausible bug: one attempt too many
GivesUpLate(attempt, retries) == attempt > retries

\* line 70
GivesUp(attempt, retries) == attempt >= retries

\* lines 49-83: `for attempt in range(1, retries + 1)`; slept holds the seconds
\* of each time.sleep
RECURSIVE RequestLoop(_, _, _, _)
RequestLoop(responses, retries, attempt, slept) ==
    IF attempt > retries
    THEN [raised |-> TRUE, data |-> None, attempts |-> attempt - 1, slept |-> slept]
    ELSE LET outcome == Attempt(responses[attempt])
         IN  IF outcome.ok
             THEN [raised |-> FALSE, data |-> outcome.data, attempts |-> attempt,
                   slept |-> slept]
             ELSE IF GivesUp(attempt, retries)
             THEN [raised |-> TRUE, data |-> None, attempts |-> attempt, slept |-> slept]
             ELSE RequestLoop(responses, retries, attempt + 1, Append(slept, attempt))

_request(responses, retries) == RequestLoop(responses, retries, 1, <<>>)

\* `retries: int = 3`
DefaultRetries == 3

MaxRetries == 3

ApiResponses ==
    { NetworkFailure,
      ApiResponse(200, [success |-> TRUE, result |-> "a"]),
      ApiResponse(200, [success |-> TRUE, result |-> "b"]),
      ApiResponse(200, [success |-> FALSE, errors |-> "e"]),
      ApiResponse(200, [errors |-> "e"]),
      ApiResponse(429, [success |-> FALSE]),
      ApiResponse(500, [success |-> FALSE]),
      ApiResponse(401, [success |-> FALSE]),
      ApiResponse(403, [success |-> FALSE]) }

\* the session has one response more at hand than the call may ask for
InitRequest ==
    /\ fn_args \in { [fn |-> "_request", retries |-> n, responses |-> rs] :
                        n \in 0..MaxRetries, rs \in [1..(MaxRetries + 1) -> ApiResponses] }
    /\ fn_result = <<>>
    /\ NoSync
    /\ NoMain

Request ==
    /\ fn_args.fn = "_request"
    /\ Len(fn_result) = 0
    /\ fn_result' = <<_request(fn_args.responses, fn_args.retries)>>
    /\ UNCHANGED <<fn_args, main_vars, sync_vars>>

NextRequest == Request

SpecRequest == InitRequest /\ [][NextRequest]_vars

(***************************************************************************)
(* A provider call that fails finally: CloudflareClient._request raises    *)
(* CloudflareAPIError, the provider has not applied the request, and       *)
(* sync_domains, which has no try block, is left by the exception.         *)
(***************************************************************************)
\* a plausible bug: the failure is swallowed and the summary is returned
OnProviderErrorReturns == "return"

\* lines 42-113 hold no try: the exception leaves sync_domains
OnProviderError == "raised"

Failed(call) == [raised |-> TRUE] @@ call

\* line 42
ListZonesFails ==
    /\ pc = "list_zones"
    /\ calls' = Append(calls, Failed([op |-> "list_zones"]))
    /\ pc' = OnProviderError
    /\ UNCHANGED <<fn_vars, main_vars, provider_vars, args, local_vars, summary, log, entry,
                   history>>

\* line 56
FetchRecordsFails ==
    /\ pc = "fetch"
    /\ LET domain == Head(todo)
       IN  calls' = Append(calls, Failed([op |-> "list_a_records",
                                          zone_id |-> domain_to_zone[domain][1],
                                          name |-> domain]))
    /\ pc' = OnProviderError
    /\ UNCHANGED <<fn_vars, main_vars, provider_vars, args, local_vars, summary, log, entry,
                   history>>

\* lines 57-67
CreateRecordFails ==
    /\ pc = "decide"
    /\ records = <<>>
    /\ Mutates
    /\ LET domain == Head(todo)
       IN  /\ counts' = [counts EXCEPT !.creates = @ + 1]
           /\ log' = Append(log, [event |-> "create", domain |-> domain, ip |-> args.public_ip])
           /\ calls' = Append(calls, Failed(CreateRequest(domain_to_zone[domain][1], domain)))
    /\ pc' = OnProviderError
    /\ UNCHANGED <<fn_vars, main_vars, provider_vars, args, zones, domain_to_zone, todo,
                   records, zone_todo, a_records, summary, entry, history>>

\* lines 70-92
UpdateRecordFails ==
    /\ pc = "decide"
    /\ records # <<>>
    /\ Mutates
    /\ LET domain == Head(todo)
           target == _pick_record(records)
           current_ip == Str(Get(target, "content", <<>>))
           comment == _compose_comment(Get(target, "comment", None))
       IN  /\ ~IsNoOp(current_ip, comment, target)
           /\ counts' = [counts EXCEPT !.updates = @ + 1]
           /\ log' = Append(WarnMultiple(log, domain),
                            [event |-> "update", domain |-> domain, current_ip |-> current_ip,
                             ip |-> args.public_ip])
           /\ calls' = Append(calls,
                              Failed(UpdateRequest(domain_to_zone[domain][1], domain, target)))
    /\ pc' = OnProviderError
    /\ UNCHANGED <<fn_vars, main_vars, provider_vars, args, zones, domain_to_zone, todo,
                   records, zone_todo, a_records, summary, entry, history>>

\* lines 96-100
ScanZoneFails ==
    /\ pc = "cleanup"
    /\ LET zone_id == Str(Get(Head(zone_todo), "id", <<>>))
       IN  /\ zone_id # <<>>
           /\ calls' = Append(calls, Failed([op |-> "list_a_records", zone_id |-> zone_id,
                                             name |-> None]))
    /\ pc' = OnProviderError
    /\ UNCHANGED <<fn_vars, main_vars, provider_vars, args, local_vars, summary, log, entry,
                   history>>

\* lines 101-111
DeleteRecordFails ==
    /\ pc = "prune"
    /\ IsStale(Head(a_records))
    /\ Mutates
    /\ LET record == Head(a_records)
       IN  /\ counts' = [counts EXCEPT !.deletes = @ + 1]
           /\ log' = Append(log, [event |-> "delete",
                                  name |-> Lower(Str(Get(record, "name", <<>>)))])
           /\ calls' = Append(calls, Failed([op |-> "delete_record",
                                             zone_id |-> Str(Get(Head(zone_todo), "id", <<>>)),
                                             record_id |-> Str(record.id)]))
    /\ pc' = OnProviderError
    /\ UNCHANGED <<fn_vars, main_vars, provider_vars, args, zones, domain_to_zone, todo,
                   records, zone_todo, a_records, summary, entry, history>>

ProviderCallFails ==
    \/ ListZonesFails
    \/ FetchRecordsFails
    \/ CreateRecordFails
    \/ UpdateRecordFails
    \/ ScanZoneFails
    \/ DeleteRecordFails

(***************************************************************************)
(* create_a_record behind the retries of _request.  The POST of line 138   *)
(* is sent at most DefaultRetries times; an attempt the provider has       *)
(* applied still fails at the client when its response is lost (a timeout  *)
(* is a requests.RequestException), and the loop of lines 50-82 then sends *)
(* the same POST again.                                                    *)
(***************************************************************************)
\* what one attempt of the POST comes to: whether the provider applied the
\* request, and what session.request gave the client: the record was created
\* and the answer arrived; it was created and the answer was lost; the request
\* never arrived; the provider failed; the provider refused the request
PostAttempts ==
    { [applied |-> TRUE,  response |-> ApiResponse(200, [success |-> TRUE])],
      [applied |-> TRUE,  response |-> NetworkFailure],
      [applied |-> FALSE, response |-> NetworkFailure],
      [applied |-> FALSE, response |-> ApiResponse(500, [success |-> FALSE])],
      [applied |-> FALSE, response |-> ApiResponse(400, [success |-> FALSE])] }

\* sync_engine.py lines 57-68 with cloudflare_client.py lines 129-139 and 50-83:
\* the create whose first attempt fails at the client
CreateRecordRetried ==
    /\ pc = "decide"
    /\ records = <<>>
    /\ Mutates
    /\ \E attempts \in [1..DefaultRetries -> PostAttempts] :
          LET domain == Head(todo)
              request == CreateRequest(domain_to_zone[domain][1], domain)
              outcome == _request([i \in 1..DefaultRetries |-> attempts[i].response],
                                  DefaultRetries)
              applied == { i \in 1..outcome.attempts : attempts[i].applied }
          IN  /\ outcome.attempts > 1
              /\ counts' = [counts EXCEPT !.creates = @ + 1]
              /\ log' = Append(log, [event |-> "create", domain |-> domain,
                                     ip |-> args.public_ip])
              /\ cf_records' = cf_records \cup
                     { [id |-> <<"n", Digits[cf_serial + k]>>, zone_id |-> request.zone_id,
                        name |-> request.name, content |-> request.ip,
                        proxied |-> request.proxied, comment |-> request.comment] :
                          k \in 1..Cardinality(applied) }
              /\ cf_serial' = cf_serial + Cardinality(applied)
              /\ IF outcome.raised
                 THEN /\ calls' = Append(calls, Failed(request))
                      /\ pc' = OnProviderError
                      /\ UNCHANGED todo
                 ELSE /\ calls' = Append(calls, request)
                      /\ NextHostname
    /\ UNCHANGED <<fn_vars, main_vars, cf_zones, edits, args, zones, domain_to_zone, records, zone_todo,
                   a_records, summary, entry, history>>

(***************************************************************************)
(* Specification of two cycles in a row with creates that are retried, on  *)
(* a provider that has at most one A record of a name in a zone at first.  *)
(***************************************************************************)
InitRetry ==
    /\ SyncInit({SyncZones},
                Shapes(RepeatPlaces, {IpOld, IpNew}, {FALSE}, {<<"x">>, PaddedMarker}),
                CallArgs({{HostB}, {HostB, HostASub}}, {IpNew}, {FALSE}, {FALSE}, BOOLEAN))
    /\ \A r, o \in cf_records : (r.zone_id = o.zone_id /\ r.name = o.name) => r = o

NextRetry ==
    \/ SyncStep
    \/ CreateRecordRetried
    \/ CycleAgain

SpecRetry == InitRetry /\ [][NextRetry]_vars

(***************************************************************************)
(* Others edit the provider's records while a cycle runs.  sync_domains    *)
(* holds no lock and sends no precondition: between list_a_records and the *)
(* update or delete that follows it, the provider's records can be changed *)
(* by a human at the provider's dashboard.                                 *)
(***************************************************************************)
MaxEdits == 1

\* what the human does to a record: sets its address, sets its comment, or
\* deletes it
EditKinds == {"address", "comment", "delete"}

ApplyEdit(rs, edit) ==
    IF edit.kind = "delete" THEN { r \in rs : r.id # edit.id }
    ELSE { IF r.id # edit.id THEN r
           ELSE IF edit.kind = "address" THEN [r EXCEPT !.content = IpOld]
           ELSE [r EXCEPT !.comment = <<"y">>] : r \in rs }

\* an edit of a record the cycle has fetched (line 56 or line 100) and has not
\* yet acted on (lines 85-92, line 111)
ExternalEdit ==
    /\ pc \in {"decide", "prune"}
    /\ history = <<>>
    /\ Len(edits) < MaxEdits
    /\ \E r \in cf_records, kind \in EditKinds :
          LET edit == [kind |-> kind, id |-> r.id]
          IN  /\ cf_records' = ApplyEdit(cf_records, edit)
              /\ edits' = Append(edits, edit)
    /\ UNCHANGED <<fn_vars, main_vars, cf_zones, cf_serial, args, pc, local_vars, summary, calls,
                   log, entry, history>>

\* is the record the call is about to update, or to delete, still there?
TargetIsThere ==
    \E r \in cf_records :
       \/ pc = "decide" /\ records # <<>> /\ r.id = _pick_record(records).id
       \/ pc = "prune" /\ r.id = Head(a_records).id

\* lines 82-92: the PUT changes the record, or fails for want of it
UpdateInRace ==
    \/ TargetIsThere /\ UpdateRecord
    \/ ~TargetIsThere /\ UpdateRecordFails

\* lines 108-111: the DELETE removes the record, or fails for want of it
DeleteInRace ==
    \/ TargetIsThere /\ DeleteRecord
    \/ ~TargetIsThere /\ DeleteRecordFails

\* the next cycle of main's loop, after a cycle that returned or raised
\* (main.py lines 70-80): the same domains, IP and configuration
CycleAfterRace ==
    /\ pc \in {"done", "raised"}
    /\ history = <<>>
    /\ history' = <<[args |-> args, summary |-> summary, entry |-> entry,
                     cf_records |-> cf_records,
                     calls |-> SelectSeq(calls, LAMBDA call :
                                  call.op \notin {"list_zones", "list_a_records"})]>>
    /\ pc' = "list_zones"
    /\ zones' = <<>> /\ domain_to_zone' = <<>> /\ todo' = <<>> /\ records' = <<>>
    /\ zone_todo' = <<>> /\ a_records' = <<>> /\ counts' = ZeroCounts
    /\ summary' = None /\ calls' = <<>> /\ log' = <<>>
    /\ entry' = cf_records
    /\ UNCHANGED <<fn_vars, main_vars, provider_vars, args>>

\* b.e.c is desired, a.s.e.c is not: no record; a hand-made record of b.e.c at
\* the old address; a managed record of b.e.c at the new address; a managed
\* record of b.e.c at the old address next to a managed record of a.s.e.c
RaceProviderStates ==
    { {},
      { [id |-> <<"r", "1", "0">>, zone_id |-> ZoneExample.id, name |-> HostB,
         content |-> IpOld, proxied |-> FALSE, comment |-> <<"x">>] },
      { [id |-> <<"r", "1", "0">>, zone_id |-> ZoneExample.id, name |-> HostB,
         content |-> IpNew, proxied |-> FALSE, comment |-> MANAGED_MARKER] },
      { [id |-> <<"r", "1", "0">>, zone_id |-> ZoneExample.id, name |-> HostB,
         content |-> IpOld, proxied |-> FALSE, comment |-> MANAGED_MARKER],
        [id |-> <<"r", "2">>, zone_id |-> ZoneSub.id, name |-> HostASub,
         content |-> IpNew, proxied |-> FALSE, comment |-> MANAGED_MARKER] } }

InitRace ==
    /\ fn_args = [fn |-> "sync_domains"]
    /\ fn_result = <<>>
    /\ cf_zones = SyncZones
    /\ cf_records \in RaceProviderStates
    /\ cf_serial = 0
    /\ edits = <<>>
    /\ \E a \in CallArgs({{HostB}}, {IpNew}, {FALSE}, {FALSE}, BOOLEAN) : Called(a)
    /\ entry = cf_records
    /\ history = <<>>
    /\ NoMain

NextRace ==
    \/ ListZones
    \/ MatchZones
    \/ FetchRecords
    \/ CreateRecord
    \/ NoChange
    \/ UpdateInRace
    \/ ScanZone
    \/ KeepRecord
    \/ DeleteInRace
    \/ Return
    \/ ExternalEdit
    \/ CycleAfterRace

SpecRace == InitRace /\ [][NextRace]_vars

(***************************************************************************)
(* main.main and main.run_sync_cycle                                       *)
(***************************************************************************)
MaxCycles == 2

\* a plausible bug: only `except CloudflareAPIError` is there, anything else
\* ends the process
CaughtCloudflareOnly(error) == error.outcome = "cloudflare_error"

\* lines 73-76: `except CloudflareAPIError` and `except Exception`
Caught(error) == error.outcome \in {"cloudflare_error", "unexpected_error"}

\* lines 71-76: the cycle raised; main logs the error and goes on to line 78, or
\* the exception leaves main
Except(error) ==
    IF Caught(error)
    THEN /\ cycle_log' = Append(cycle_log, error)
         /\ main_pc' = "after_cycle"
         /\ UNCHANGED exit_code
    ELSE /\ main_pc' = "exited"
         /\ exit_code' = 1
         /\ UNCHANGED cycle_log

\* lines 47-68
LoadConfig ==
    /\ main_pc = "load_config"
    /\ IF config.raises
       THEN main_pc' = "exited" /\ exit_code' = 2
       ELSE main_pc' = "cycle" /\ UNCHANGED exit_code
    /\ UNCHANGED <<fn_vars, sync_vars, config, cycle, cycle_log, ip_queries>>

\* a plausible bug: a failed resolution does not end the cycle
ResolutionNeverAborts(resolution) == FALSE

\* line 39 of ip_resolver.py raises, and run_sync_cycle has no try
ResolutionAborts(resolution) == resolution.raised

\* a plausible bug: the cycle goes on with no hostname at all
NoDomainsIgnored(domains) == FALSE

\* line 17: `if not domains:`
NoDomains(domains) == domains = {}

\* what extract_domains_from_source comes to: a set of hostnames, or an
\* exception it does not catch (a file that is not UTF-8)
ParserOutcomes ==
    { [raised |-> TRUE, domains |-> {}],
      [raised |-> FALSE, domains |-> {}],
      [raised |-> FALSE, domains |-> {HostASub, HostB}],
      [raised |-> FALSE, domains |-> {HostB, HostOther}] }

\* what the two configured IP sources answer in one cycle
IpSourceResponses ==
    LET pool == { NetworkFailure, Response(200, <<"x">>), Response(200, PaddedIp) }
    IN  { <<first, second>> : first \in pool, second \in pool }

\* main.py lines 70-72 and 15-36: a cycle begins and runs up to the call of
\* sync_domains
RunSyncCycle ==
    /\ main_pc = "cycle"
    /\ cycle < MaxCycles
    /\ cycle' = cycle + 1
    /\ zones' = <<>> /\ domain_to_zone' = <<>> /\ todo' = <<>> /\ records' = <<>>
    /\ zone_todo' = <<>> /\ a_records' = <<>> /\ counts' = ZeroCounts
    /\ summary' = None /\ calls' = <<>> /\ log' = <<>>
    /\ entry' = cf_records
    /\ \E parsed \in ParserOutcomes, responses \in IpSourceResponses :
          IF parsed.raised
          THEN /\ Except([outcome |-> "unexpected_error", cause |-> "parser"])
               /\ ip_queries' = <<>> /\ pc' = "idle" /\ UNCHANGED args
          ELSE IF NoDomains(parsed.domains)
          THEN /\ cycle_log' = Append(cycle_log, [outcome |-> "no_domains", cause |-> ""])
               /\ main_pc' = "after_cycle"
               /\ ip_queries' = <<>> /\ pc' = "idle" /\ UNCHANGED <<args, exit_code>>
          ELSE LET resolution == resolve_public_ipv4(responses)
               IN  /\ ip_queries' = [i \in 1..Len(resolution.queried) |->
                                       [source |-> resolution.queried[i],
                                        answer |-> Answer(responses[resolution.queried[i]])]]
                   /\ IF ResolutionAborts(resolution)
                      THEN /\ Except([outcome |-> "unexpected_error", cause |-> "resolve"])
                           /\ pc' = "idle" /\ UNCHANGED args
                      ELSE /\ args' = [domains |-> parsed.domains,
                                       public_ip |-> resolution.value,
                                       default_proxied |-> config.default_proxied,
                                       dry_run |-> config.dry_run,
                                       cleanup_stale |-> config.cleanup_stale]
                           /\ pc' = "list_zones"
                           /\ main_pc' = "sync"
                           /\ UNCHANGED <<cycle_log, exit_code>>
    /\ UNCHANGED <<fn_vars, provider_vars, history, config>>

\* main.py lines 37-44: sync_domains has returned
CycleCompletes ==
    /\ main_pc = "sync"
    /\ pc = "done"
    /\ cycle_log' = Append(cycle_log, [outcome |-> "completed", cause |-> ""])
    /\ main_pc' = "after_cycle"
    /\ UNCHANGED <<fn_vars, sync_vars, config, cycle, ip_queries, exit_code>>

\* main.py lines 73-74: a provider call has raised out of sync_domains
CycleRaises ==
    /\ main_pc = "sync"
    /\ pc = "raised"
    /\ Except([outcome |-> "cloudflare_error", cause |-> "provider"])
    /\ UNCHANGED <<fn_vars, sync_vars, config, cycle, ip_queries>>

\* main.py lines 78-82
AfterCycle ==
    /\ main_pc = "after_cycle"
    /\ IF config.once
       THEN main_pc' = "exited" /\ exit_code' = 0
       ELSE main_pc' = "sleep" /\ UNCHANGED exit_code
    /\ UNCHANGED <<fn_vars, sync_vars, config, cycle, cycle_log, ip_queries>>

\* main.py line 80: time.sleep(config.interval_seconds) returns
Wake ==
    /\ main_pc = "sleep"
    /\ main_pc' = "cycle"
    /\ UNCHANGED <<fn_vars, sync_vars, config, cycle, cycle_log, ip_queries, exit_code>>

MainConfigs ==
    { [raises |-> r, once |-> o, dry_run |-> FALSE, cleanup_stale |-> c,
       default_proxied |-> FALSE] : r \in BOOLEAN, o \in BOOLEAN, c \in BOOLEAN }

\* the provider is empty, or holds a hand-made record of b.e.c at the old
\* address and a managed record of s.e.c
MainProviderStates ==
    { {},
      { [id |-> <<"r", "1", "0">>, zone_id |-> ZoneExample.id, name |-> HostB,
         content |-> IpOld, proxied |-> FALSE, comment |-> <<"x">>],
        [id |-> <<"r", "2">>, zone_id |-> ZoneSub.id, name |-> HostSub,
         content |-> IpNew, proxied |-> FALSE, comment |-> MANAGED_MARKER] } }

InitMain ==
    /\ fn_args = [fn |-> "main"]
    /\ fn_result = <<>>
    /\ cf_zones = SyncZones
    /\ cf_records \in MainProviderStates
    /\ cf_serial = 0
    /\ edits = <<>>
    /\ args = None /\ pc = "idle"
    /\ zones = <<>> /\ domain_to_zone = <<>> /\ todo = <<>> /\ records = <<>>
    /\ zone_todo = <<>> /\ a_records = <<>> /\ counts = ZeroCounts
    /\ summary = None /\ calls = <<>> /\ log = <<>>
    /\ entry = cf_records
    /\ history = <<>>
    /\ config \in MainConfigs
    /\ main_pc = "load_config"
    /\ cycle = 0 /\ cycle_log = <<>> /\ ip_queries = <<>> /\ exit_code = -1

NextMain ==
    \/ LoadConfig
    \/ RunSyncCycle
    \/ SyncStep
    \/ ProviderCallFails
    \/ CycleCompletes
    \/ CycleRaises
    \/ AfterCycle
    \/ Wake

SpecMain == InitMain /\ [][NextMain]_vars

\* the process keeps running: from line 78 on, main takes the step it can take
\* (the test of config.once, the return of time.sleep, the next call of
\* run_sync_cycle)
SpecMainFair ==
    SpecMain /\ WF_vars(AfterCycle) /\ WF_vars(Wake) /\ WF_vars(RunSyncCycle)

(***************************************************************************)
(* What the claims about sync_domains speak of, stated from the provider   *)
(* calls, the logger's lines and the returned summary.                     *)
(***************************************************************************)
Done == pc = "done"

ProviderZones == { cf_zones[i] : i \in 1..Len(cf_zones) }

\* the zones that match hostname d, and the one with the longest name
OwningZones(d) == { z \in ProviderZones : ZoneMatches(d, z) }
OwningZone(d) ==
    CHOOSE z \in OwningZones(d) : \A other \in OwningZones(d) : Len(z.name) >= Len(other.name)

CallsOf(op) == { i \in 1..Len(calls) : calls[i].op = op }
FetchesOf(d) == { i \in CallsOf("list_a_records") : calls[i].name = d }
CreatesOf(d) == { i \in CallsOf("create_a_record") : calls[i].name = d }
UpdatesOf(d) == { i \in CallsOf("update_a_record") : calls[i].name = d }

\* the records named d that the fetches for d returned
Existing(d) ==
    { r \in UNION { { calls[i].result[k] : k \in 1..Len(calls[i].result) } : i \in FetchesOf(d) } :
        r.name = d }

\* the one of them with the smallest id
LeastOf(rs) == CHOOSE r \in rs : \A other \in rs \ {r} : StrLess(r.id, other.id)

Decided(event, d) == \E i \in 1..Len(log) : log[i].event = event /\ log[i].domain = d

\* the comment with the marker, as C10 states it
Marked(c) ==
    LET t == TrimOf(OrEmpty(c))
    IN  IF t = <<>> THEN MANAGED_MARKER
        ELSE IF Contains(t, MANAGED_MARKER) THEN t
        ELSE t \o <<" ", "|", " ">> \o MANAGED_MARKER

(***************************************************************************)
(* Claims about what is done about one hostname (SpecDiffer)               *)
(***************************************************************************)
\* the hostnames with a zone whose fetch returned no record of that name
Absent == { d \in args.domains : OwningZones(d) # {} /\ FetchesOf(d) # {} /\ Existing(d) = {} }

\* C5: in a call that is no dry run, a hostname with a zone whose fetch returned
\* no record of that name gets exactly one create_a_record call, in the zone with
\* the longest matching name, with the public IP as content, proxied equal to
\* default_proxied and the marker alone as comment, and counts once in creates.
C5_CreateWhenAbsent ==
    /\ \A d \in args.domains : Cardinality(CreatesOf(d)) <= 1
    /\ (Done /\ ~args.dry_run) =>
          /\ \A d \in Absent :
                \E i \in CreatesOf(d) :
                   calls[i] = [op |-> "create_a_record", zone_id |-> OwningZone(d).id,
                               name |-> d, ip |-> args.public_ip,
                               proxied |-> args.default_proxied, comment |-> MANAGED_MARKER]
          /\ \A d \in args.domains \ Absent : CreatesOf(d) = {}
          /\ summary.creates = Cardinality(Absent)

\* a.sub.example.com, which had no record, was created as proxied in
\* sub.example.com by a call whose default is proxied
C5_Witness ==
    /\ Done /\ ~args.dry_run /\ args.default_proxied
    /\ HostASub \in Absent
    /\ \E i \in CreatesOf(HostASub) : calls[i].zone_id = ZoneSub.id /\ calls[i].proxied
    /\ summary.creates = 1

\* the hostnames whose fetch returned a record of that name
Present == { d \in args.domains : Existing(d) # {} }

C7_UpdateKeepsProxied ==
    \A i \in CallsOf("update_a_record") :
       \E r \in Existing(calls[i].name) :
          /\ r.id = calls[i].record_id
          /\ r.zone_id = calls[i].zone_id
          /\ calls[i].proxied = r.proxied

\* a proxied record was updated by a call whose default is unproxied
C7_Witness ==
    /\ Done /\ ~args.default_proxied
    /\ \E i \in UpdatesOf(HostB) : calls[i].proxied

\* C8: when the fetch for a hostname returns several records, in whatever order,
\* the record whose address is read and which is updated is the one with the
\* smallest id in Python's order of strings (r10 before r2).
C8_SmallestIdIsTarget ==
    \A d \in Present :
       LET least == LeastOf(Existing(d))
           ids == { r.id : r \in Existing(d) }
       IN  /\ \A r \in Existing(d) : r = least \/ StrLess(least.id, r.id)
           /\ ({<<"r", "1", "0">>, <<"r", "2">>} \subseteq ids /\ <<"r", "1">> \notin ids) =>
                 least.id = <<"r", "1", "0">>
           /\ \A i \in UpdatesOf(d) : calls[i].record_id = least.id
           /\ \A i \in 1..Len(log) :
                 (log[i].event = "update" /\ log[i].domain = d) =>
                     log[i].current_ip = least.content
           /\ Decided("no_change", d) => least.content = args.public_ip

\* the provider returned r2 before r10, which differ in address, and r10 was
\* updated
C8_Witness ==
    /\ Done
    /\ \E i \in FetchesOf(HostB) :
          /\ Len(calls[i].result) = 2
          /\ calls[i].result[1].id = <<"r", "2">>
          /\ calls[i].result[2].id = <<"r", "1", "0">>
          /\ calls[i].result[1].content # calls[i].result[2].content
    /\ \E i \in UpdatesOf(HostB) : calls[i].record_id = <<"r", "1", "0">>

(***************************************************************************)
(* Claims about ownership, skipping and dry runs (Spec, SpecDryRun)        *)
(***************************************************************************)
\* the records that the scans of whole zones returned
Scanned ==
    UNION { { calls[i].result[k] : k \in 1..Len(calls[i].result) } :
              i \in { j \in CallsOf("list_a_records") : calls[j].name = None } }

HasMarker(r) == Contains(OrEmpty(r.comment), MANAGED_MARKER)

LowerCased(name) ==
    [i \in 1..Len(name) |->
        IF \E k \in 1..26 : UpperLetters[k] = name[i]
        THEN LowerLetters[CHOOSE k \in 1..26 : UpperLetters[k] = name[i]]
        ELSE name[i]]

Candidates == { r \in Scanned : HasMarker(r) /\ LowerCased(r.name) \notin args.domains }

Deleted == { <<calls[i].zone_id, calls[i].record_id>> : i \in CallsOf("delete_record") }

\* C1: with cleanup on and dry run off, the records on which delete_record is
\* called are exactly the records returned by the scans of the zones whose
\* comment contains the marker and whose lowercased name is not desired, each
\* deleted once; a record whose comment lacks the marker is never deleted and
\* stays at the provider, whether or not its name is desired.
C1_DeletesExactlyStaleManaged ==
    /\ Deleted \subseteq { <<r.zone_id, r.id>> : r \in Candidates }
    /\ \A r \in Scanned : ~HasMarker(r) => <<r.zone_id, r.id>> \notin Deleted
    /\ \A r \in entry :
          ~HasMarker(r) => \E now \in cf_records : now.zone_id = r.zone_id /\ now.id = r.id
    /\ (~args.cleanup_stale \/ args.dry_run) => Deleted = {}
    /\ (Done /\ args.cleanup_stale /\ ~args.dry_run) =>
          /\ Deleted = { <<r.zone_id, r.id>> : r \in Candidates }
          /\ Cardinality(CallsOf("delete_record")) = Cardinality(Deleted)
          /\ summary.deletes = Cardinality(Deleted)
          /\ \A r \in Candidates :
                ~\E now \in cf_records : now.zone_id = r.zone_id /\ now.id = r.id

\* of two records that are not desired, the managed one was deleted and the
\* hand-made one was kept
C1_Witness ==
    /\ Done /\ args.cleanup_stale /\ ~args.dry_run
    /\ HostB \notin args.domains
    /\ \E managed \in entry, own \in entry :
          /\ managed.name = HostB /\ managed.comment = PaddedMarker
          /\ own.name = HostB /\ own.comment = <<"x">>
          /\ <<managed.zone_id, managed.id>> \in Deleted
          /\ own \in cf_records
    /\ summary.deletes = 1

\* the desired hostnames that no zone of the provider matches
Unmatched == { d \in args.domains : OwningZones(d) = {} }

\* C4: for a desired hostname that no zone matches, find_best_zone_match returns
\* None, sync_domains counts it once in skipped and makes no list_a_records,
\* create or update call for it, and the other hostnames are still processed.
C4_UnmatchedIsSkipped ==
    /\ \A d \in Unmatched :
          /\ find_best_zone_match(d, cf_zones) = None
          /\ FetchesOf(d) = {} /\ CreatesOf(d) = {} /\ UpdatesOf(d) = {}
    /\ pc \notin {"list_zones", "match"} =>
          /\ counts.skipped = Cardinality(Unmatched)
          /\ \A d \in args.domains : Decided("skip", d) <=> d \in Unmatched
    /\ Done =>
          /\ summary.skipped = Cardinality(Unmatched)
          /\ \A d \in args.domains \ Unmatched :
                /\ FetchesOf(d) # {}
                /\ Decided("create", d) \/ Decided("update", d) \/ Decided("no_change", d)
          /\ summary.creates + summary.updates + summary.noops
                = Cardinality(args.domains \ Unmatched)

\* a.o.n, first in the sorted order, was skipped and b.e.c after it was fetched
C4_Witness ==
    /\ Done
    /\ args.domains = {HostOther, HostB}
    /\ Unmatched = {HostOther}
    /\ summary.skipped = 1
    /\ FetchesOf(HostB) # {}
    /\ summary.creates + summary.updates + summary.noops = 1

Mutations == CallsOf("create_a_record") \cup CallsOf("update_a_record") \cup CallsOf("delete_record")

\* C2: a call with dry_run on makes no create_a_record, update_a_record or
\* delete_record call and leaves the provider's records as they were, and the
\* call with dry_run off that starts from the same provider state, with the
\* same desired set, IP and cleanup flag, returns the same summary counts.
C2_DryRunSameCounts ==
    /\ args.dry_run => Mutations = {} /\ cf_records = entry
    /\ history # <<>> =>
          /\ history[1].args.dry_run
          /\ args = [history[1].args EXCEPT !.dry_run = FALSE]
          /\ entry = history[1].entry
          /\ history[1].calls = <<>>
          /\ history[1].cf_records = history[1].entry
          /\ Done => summary = history[1].summary

\* both calls counted one create, one delete and one skip; only the second
\* changed the provider
C2_Witness ==
    /\ Done /\ history # <<>>
    /\ summary.creates = 1 /\ summary.deletes = 1 /\ summary.skipped = 1
    /\ history[1].summary = summary
    /\ history[1].cf_records = entry
    /\ CallsOf("create_a_record") # {} /\ CallsOf("delete_record") # {}
    /\ cf_records # entry

(***************************************************************************)
(* Claims about the gate of the cleanup and the order of the calls (Spec)  *)
(***************************************************************************)
Scans == { i \in CallsOf("list_a_records") : calls[i].name = None }

\* C11: when cleanup_stale is false, sync_domains never calls delete_record,
\* never scans a zone without a name filter and returns deletes = 0, whatever
\* records the provider holds; the records it held that are managed and not
\* desired are still there.
C11_CleanupIsGated ==
    ~args.cleanup_stale =>
       /\ CallsOf("delete_record") = {}
       /\ Scans = {}
       /\ pc \notin {"cleanup", "prune"}
       /\ counts.deletes = 0
       /\ Done => summary.deletes = 0
       /\ \A r \in entry : \E now \in cf_records : now.zone_id = r.zone_id /\ now.id = r.id

\* a managed record of a hostname that is not desired survived a call without
\* cleanup
C11_Witness ==
    /\ Done /\ ~args.cleanup_stale
    /\ HostB \notin args.domains
    /\ \E r \in entry : r.name = HostB /\ r.comment = PaddedMarker /\ r \in cf_records
    /\ summary.deletes = 0

\* the calls made for one hostname: its fetch, create and update
PerHostname ==
    { i \in 1..Len(calls) :
         \/ calls[i].op \in {"create_a_record", "update_a_record"}
         \/ calls[i].op = "list_a_records" /\ calls[i].name # None }

\* C20: list_zones is called exactly once and before every other provider call;
\* the fetches of the matched hostnames come in ascending order of the hostnames,
\* a hostname's create or update comes right after its fetch and so before the
\* next hostname's fetch; every scan and every delete comes after the last
\* call made for a hostname.
C20_PhasesInOrder ==
    /\ calls # <<>> => calls[1].op = "list_zones"
    /\ Cardinality(CallsOf("list_zones")) <= 1
    /\ pc # "list_zones" => Cardinality(CallsOf("list_zones")) = 1
    /\ \A i, j \in PerHostname :
          (i < j /\ calls[i].op = "list_a_records" /\ calls[j].op = "list_a_records") =>
              StrLess(calls[i].name, calls[j].name)
    /\ \A i \in CallsOf("create_a_record") \cup CallsOf("update_a_record") :
          /\ i > 1
          /\ calls[i - 1].op = "list_a_records"
          /\ calls[i - 1].name = calls[i].name
    /\ \A i \in Scans \cup CallsOf("delete_record") : \A j \in PerHostname : j < i
    /\ \A i \in CallsOf("delete_record") :
          \E j \in Scans : j < i /\ calls[j].zone_id = calls[i].zone_id

\* list_zones, then the fetch of a.s.e.c and its create, then the fetch of b.e.c
\* and its update, then the scans of the two zones
C20_Witness ==
    /\ Done
    /\ Len(calls) = 7
    /\ calls[1].op = "list_zones"
    /\ calls[2].op = "list_a_records" /\ calls[2].name = HostASub
    /\ calls[3].op = "create_a_record"
    /\ calls[4].op = "list_a_records" /\ calls[4].name = HostB
    /\ calls[5].op = "update_a_record"
    /\ calls[6].op = "list_a_records" /\ calls[6].name = None
    /\ calls[7].op = "list_a_records" /\ calls[7].name = None

(***************************************************************************)
(* Claims about what a cycle leaves behind (SpecRepeat)                    *)
(***************************************************************************)
MatchedHostnames == { d \in args.domains : OwningZones(d) # {} }

\* C12: the cycle that follows a completed cycle without dry run, with the same
\* desired set and public IP on the provider as that cycle left it, makes no
\* create, update or delete call, leaves the provider's records alone and
\* returns creates = 0, updates = 0, deletes = 0: every matched hostname is a
\* no-op.
C12_SecondCycleIsNoOp ==
    history # <<>> =>
       /\ args = history[1].args /\ ~args.dry_run
       /\ entry = history[1].cf_records
       /\ Mutations = {}
       /\ cf_records = entry
       /\ counts.creates = 0 /\ counts.updates = 0 /\ counts.deletes = 0
       /\ Done =>
             /\ summary.creates = 0 /\ summary.updates = 0 /\ summary.deletes = 0
             /\ summary.noops = Cardinality(MatchedHostnames)
             /\ summary.skipped = history[1].summary.skipped

\* the first cycle created, updated and deleted; the second found nothing to do
C12_Witness ==
    /\ Done /\ history # <<>>
    /\ history[1].summary.creates = 1 /\ history[1].summary.deletes = 1
    /\ Len(history[1].calls) = 2
    /\ summary.noops = 1 /\ summary.creates = 0 /\ summary.deletes = 0

\* C13: when a cycle without dry run has returned, every desired hostname that
\* matched a zone has, in the zone with the longest matching name, an A record
\* of that name whose content is the public IP and whose comment contains the
\* marker.
C13_DesiredHostnamesAreServed ==
    (Done /\ ~args.dry_run) =>
       \A d \in MatchedHostnames :
          \E r \in cf_records :
             /\ r.zone_id = OwningZone(d).id
             /\ r.name = d
             /\ r.content = args.public_ip
             /\ HasMarker(r)

\* b.e.c had only a hand-made record at the old address and a.s.e.c had none;
\* after the first cycle both are served
C13_Witness ==
    /\ Done /\ history = <<>>
    /\ args.domains = SyncHosts
    /\ \A r \in entry : r.name = HostB /\ r.content = IpOld /\ r.comment = <<"x">>
    /\ entry # {}
    /\ \E r \in cf_records : r.name = HostASub /\ r.zone_id = ZoneSub.id /\ r.content = IpNew
    /\ \E r \in cf_records : r.name = HostB /\ r.content = IpNew /\ HasMarker(r)

(***************************************************************************)
(* Claims about resolve_public_ipv4 (SpecResolver)                         *)
(***************************************************************************)
\* the sources that answer successfully with a valid IPv4 address
GoodSources ==
    { i \in 1..Len(fn_args.responses) :
         LET response == fn_args.responses[i]
         IN  /\ ~response.failed
             /\ response.status_code < 400
             /\ IsIPv4Address(TrimOf(response.text)) }

Resolved == Len(fn_result) = 1

\* C17: resolve_public_ipv4 asks the sources in the given order and returns the
\* trimmed body of the first source that answers successfully with a valid IPv4
\* address, asking no source after it; a source that fails or answers something
\* else is skipped; it raises only when every source was asked and none was good.
C17_FirstGoodSourceWins ==
    Resolved =>
       LET result == fn_result[1]
           n == Len(fn_args.responses)
       IN  /\ result.raised <=> GoodSources = {}
           /\ result.raised =>
                 /\ result.queried = [i \in 1..n |-> i]
                 /\ result.errors = result.queried
           /\ ~result.raised =>
                 LET first == CHOOSE i \in GoodSources : \A j \in GoodSources : i <= j
                 IN  /\ result.value = TrimOf(fn_args.responses[first].text)
                     /\ IsIPv4Address(result.value)
                     /\ result.queried = [i \in 1..first |-> i]
                     /\ result.errors = [i \in 1..(first - 1) |-> i]

\* a network failure, then a body that is no address, then the address with
\* whitespace around it: the third source's trimmed body is returned
C17_Witness ==
    /\ Resolved
    /\ Len(fn_args.responses) = 3
    /\ fn_args.responses[1] = NetworkFailure
    /\ fn_args.responses[2] = Response(200, <<"x">>)
    /\ fn_args.responses[3] = Response(200, PaddedIp)
    /\ fn_result[1].value = IpNew
    /\ fn_result[1].queried = <<1, 2, 3>>

(***************************************************************************)
(* Claims about CloudflareClient._request (SpecRequest)                    *)
(***************************************************************************)
Requested == Len(fn_result) = 1

\* the response is an HTTP success whose body says success
IsSuccess(response) ==
    /\ ~response.failed
    /\ response.status_code < 400
    /\ "success" \in DOMAIN response.data
    /\ response.data.success

\* the attempts the call may make that meet a success
SuccessfulAttempts == { i \in 1..fn_args.retries : IsSuccess(fn_args.responses[i]) }

\* C18: _request makes at most `retries` attempts; it returns the data of the
\* first attempt that succeeds, after sleeping 1, 2, ... seconds between the
\* failed ones (so a 429 or 5xx is tried again), and raises CloudflareAPIError
\* when `retries` attempts have failed; what it returns is never the body of an
\* HTTP error or of a success=false response.
C18_BoundedRetries ==
    Requested =>
       LET result == fn_result[1]
       IN  /\ result.attempts <= fn_args.retries
           /\ result.slept = [i \in 1..(result.attempts - 1) |-> i]
           /\ result.raised <=> SuccessfulAttempts = {}
           /\ result.raised => result.attempts = fn_args.retries /\ result.data = None
           /\ ~result.raised =>
                 LET first == CHOOSE i \in SuccessfulAttempts :
                                 \A j \in SuccessfulAttempts : i <= j
                 IN  /\ result.attempts = first
                     /\ result.data = fn_args.responses[first].data
                     /\ result.data.success

\* with the default of three attempts: a 429, a 500, then a success whose data
\* is returned
C18_Witness ==
    /\ Requested
    /\ fn_args.retries = DefaultRetries
    /\ fn_args.responses[1] = ApiResponse(429, [success |-> FALSE])
    /\ fn_args.responses[2] = ApiResponse(500, [success |-> FALSE])
    /\ fn_args.responses[3] = ApiResponse(200, [success |-> TRUE, result |-> "b"])
    /\ fn_result[1] = [raised |-> FALSE, data |-> [success |-> TRUE, result |-> "b"],
                       attempts |-> 3, slept |-> <<1, 2>>]

\* C19, as stated: only 429 and 5xx responses are retried; a 401 or 403 response
\* is surfaced as an error after that one attempt, without another attempt.
C19_FatalStatusNotRetried ==
    Requested =>
       \A i \in 1..fn_result[1].attempts :
          LET response == fn_args.responses[i]
          IN  (~response.failed /\ response.status_code \in {401, 403}) =>
                  fn_result[1].raised /\ fn_result[1].attempts = i

(***************************************************************************)
(* Claims about failures (SpecMain, SpecMainFair)                          *)
(***************************************************************************)
\* the calls of the current cycle that failed finally
RaisedCalls == { i \in 1..Len(calls) : "raised" \in DOMAIN calls[i] }

\* the provider's records show what the mutation asked for
Applied(call) ==
    CASE call.op = "create_a_record" ->
            \E r \in cf_records \ entry :
               /\ r.zone_id = call.zone_id /\ r.name = call.name
               /\ r.content = call.ip /\ r.comment = call.comment
      [] call.op = "update_a_record" ->
            \E r \in cf_records :
               /\ r.zone_id = call.zone_id /\ r.id = call.record_id
               /\ r.content = call.ip /\ r.comment = call.comment
      [] call.op = "delete_record" ->
            ~\E r \in cf_records : r.zone_id = call.zone_id /\ r.id = call.record_id

\* C14: when a provider call fails finally in the middle of a cycle, it is the
\* last provider call of that cycle, sync_domains returns no summary, main logs
\* the cycle as a Cloudflare error, and every create, update and delete made
\* before it in the cycle still shows at the provider: nothing is reverted.
C14_FailureEndsTheCycle ==
    /\ \A i \in RaisedCalls : i = Len(calls) /\ pc = "raised" /\ summary = None
    /\ pc = "raised" =>
          /\ RaisedCalls = {Len(calls)}
          /\ \A i \in Mutations \ RaisedCalls : Applied(calls[i])
          /\ Cardinality(cf_records) =
                Cardinality(entry)
                + Cardinality(CallsOf("create_a_record") \ RaisedCalls)
                - Cardinality(CallsOf("delete_record") \ RaisedCalls)
          /\ main_pc # "sync" =>
                /\ Len(cycle_log) = cycle
                /\ cycle_log[cycle] = [outcome |-> "cloudflare_error", cause |-> "provider"]
    /\ (main_pc # "sync" /\ cycle_log # <<>>
          /\ cycle_log[Len(cycle_log)].outcome = "completed") => pc = "done"

\* the record of a.s.e.c was created, then the update of b.e.c failed: the
\* created record is still there and main has logged the error
C14_Witness ==
    /\ pc = "raised" /\ main_pc = "after_cycle"
    /\ Len(calls) = 5
    /\ calls[3].op = "create_a_record" /\ calls[3].name = HostASub
    /\ calls[5].op = "update_a_record" /\ 5 \in RaisedCalls
    /\ \E r \in cf_records : r.name = HostASub /\ r.content = IpNew
    /\ \E r \in cf_records : r.name = HostB /\ r.content = IpOld

\* what holds of main at every moment
MainStaysUp ==
    /\ exit_code \in {-1, 0, 2}
    /\ exit_code = 2 <=> (main_pc = "exited" /\ config.raises)
    /\ exit_code = 0 <=> (main_pc = "exited" /\ ~config.raises)
    /\ config.raises => cycle = 0 /\ cycle_log = <<>> /\ calls = <<>> /\ cf_records = entry
    /\ exit_code = 0 => config.once /\ cycle = 1
    /\ main_pc \in {"after_cycle", "sleep", "exited"} => Len(cycle_log) = cycle

\* a cycle has raised and main is on line 78
CycleHasRaised(k) ==
    /\ main_pc = "after_cycle"
    /\ cycle = k
    /\ Len(cycle_log) = k
    /\ cycle_log[k].outcome \in {"cloudflare_error", "unexpected_error"}

\* C15: main returns 2 only when load_config raises, and then without having run a
\* cycle or made a provider call; it returns 0 only after the one cycle of a
\* run-once configuration; a cycle that raises (provider error, failed IP
\* resolution, any other exception) is logged and, unless run-once is set, is
\* followed by another cycle after the sleep.
C15_FailuresNeverEndTheProcess ==
    /\ []MainStaysUp
    /\ \A k \in 1..(MaxCycles - 1) :
          (CycleHasRaised(k) /\ ~config.once) ~> (cycle = k + 1 /\ main_pc # "cycle")

\* the first cycle ended in a provider error, the second in a failed IP
\* resolution; the process sleeps before the third
C15_Witness ==
    /\ main_pc = "sleep" /\ exit_code = -1
    /\ cycle = 2
    /\ cycle_log = << [outcome |-> "cloudflare_error", cause |-> "provider"],
                      [outcome |-> "unexpected_error", cause |-> "resolve"] >>

\* every source asked in the current cycle failed or answered no IPv4 address
ResolutionFailed ==
    /\ ip_queries # <<>>
    /\ \A i \in 1..Len(ip_queries) : ip_queries[i].answer = None

\* C16: every cycle asks the IP sources from the first on, in order, going on
\* only past sources that gave no IPv4 address; when all of them have failed the
\* cycle ends without sync_domains being entered: no provider call, the
\* provider's records untouched, and main logs the error.
C16_NoIpNoProviderCall ==
    /\ \A i \in 1..Len(ip_queries) : ip_queries[i].source = i
    /\ \A i \in 1..(Len(ip_queries) - 1) : ip_queries[i].answer = None
    /\ ResolutionFailed =>
          /\ \A responses \in IpSourceResponses : Len(ip_queries) = Len(responses)
          /\ calls = <<>> /\ cf_records = entry
          /\ pc = "idle" /\ main_pc # "sync"
          /\ Len(cycle_log) = cycle
          /\ cycle_log[cycle] = [outcome |-> "unexpected_error", cause |-> "resolve"]
    /\ main_pc = "sync" =>
          /\ ip_queries # <<>>
          /\ ip_queries[Len(ip_queries)].answer = args.public_ip
          /\ IsIPv4Address(args.public_ip)

\* the first cycle failed to resolve the IP; the second asked the first source
\* again, got the address from it and is in sync_domains
C16_Witness ==
    /\ cycle = 2
    /\ cycle_log = << [outcome |-> "unexpected_error", cause |-> "resolve"] >>
    /\ main_pc = "sync" /\ calls # <<>>
    /\ ip_queries = << [source |-> 1, answer |-> IpNew] >>

(***************************************************************************)
(* Claims about several records of one hostname (SpecRepeat)               *)
(***************************************************************************)
\* the records of the same zone and name as r
Namesakes(r) == { o \in cf_records : o.zone_id = r.zone_id /\ o.name = r.name /\ o # r }

\* C21: of the A records of a desired hostname only the one with the smallest
\* id is ever changed by a step of a cycle, with or without cleanup, and it is
\* changed in place, not removed: every other record of a hostname that is
\* desired is left as it is, neither updated nor deleted.
C21_OnlySmallestIdIsTouched ==
    [][ \A r \in cf_records \ cf_records' :
           r.name \in args.domains =>
              /\ \A o \in Namesakes(r) : StrLess(IdKey(r), IdKey(o))
              /\ \E n \in cf_records' :
                    n.id = r.id /\ n.zone_id = r.zone_id /\ n.name = r.name ]_vars

\* b.e.c has two records; two cycles with cleanup have run, the first updated
\* r10 and the record r2 is still what it was: a hand-made record at the old
\* address
C21_Witness ==
    /\ Done /\ history # <<>>
    /\ args.cleanup_stale /\ args.domains = {HostB}
    /\ history[1].summary.updates = 1
    /\ \E r \in cf_records :
          r.id = <<"r", "1", "0">> /\ r.name = HostB /\ r.content = IpNew /\ HasMarker(r)
    /\ \E r \in cf_records :
          /\ r.id = <<"r", "2">> /\ r.name = HostB /\ r.content = IpOld
          /\ r.comment = <<"x">> /\ r \in history[1].entry

(***************************************************************************)
(* Claims about records the program did not create (SpecChange)            *)
(***************************************************************************)
\* the provider's records when the first cycle began
FirstSeen == IF history = <<>> THEN entry ELSE history[1].entry

\* those of them that bore no marker: made by hand, not by this program
HandMade == { r \in FirstSeen : ~HasMarker(r) }

\* C22: over the cycles with cleanup, whatever the desired hostnames of each
\* cycle are, a record that was at the provider without the marker when the
\* first cycle began is still at the provider.
C22_HandMadeIsNeverDeleted ==
    \A r \in HandMade : \E n \in cf_records : n.id = r.id /\ n.zone_id = r.zone_id

(***************************************************************************)
(* Claims about creates that are retried (SpecRetry)                       *)
(***************************************************************************)
\* no two A records of one name in one zone
OnePerName == \A r, o \in cf_records : (r.zone_id = o.zone_id /\ r.name = o.name) => r = o

\* C23: on a provider that had at most one A record of a name in a zone when
\* the cycles began, no hostname ever has a second A record in a zone, the
\* retries of a create whose response was lost or failed included; and a create
\* is issued only for a hostname whose fetch returned no record of that name.
C23_NoSecondRecord ==
    /\ OnePerName
    /\ \A i \in CallsOf("create_a_record") : Existing(calls[i].name) = {}

(***************************************************************************)
(* Claims about edits made by others while a cycle runs (SpecRace)         *)
(***************************************************************************)
\* a record without its id: a record that is created anew gets a new id
Shape(r) ==
    [zone_id |-> r.zone_id, name |-> r.name, content |-> r.content, proxied |-> r.proxied,
     comment |-> r.comment]

RECURSIVE Edited(_, _)
Edited(rs, es) == IF es = <<>> THEN rs ELSE Edited(ApplyEdit(rs, Head(es)), Tail(es))

\* what an undisturbed cycle makes of the records rs of desired hostname d in
\* the zone that owns d: it creates the record, leaves the one with the
\* smallest id alone, or updates it
ReconciledName(rs, d) ==
    LET zone_id == OwningZone(d).id
        group == { r \in rs : r.zone_id = zone_id /\ r.name = d }
    IN  IF group = {}
        THEN LET request == CreateRequest(zone_id, d)
             IN  { [zone_id |-> zone_id, name |-> d, content |-> request.ip,
                    proxied |-> request.proxied, comment |-> request.comment] }
        ELSE LET target == LeastOf(group)
                 request == UpdateRequest(zone_id, d, target)
             IN  IF IsNoOp(Str(target.content), request.comment, target)
                 THEN { Shape(r) : r \in group }
                 ELSE { Shape(r) : r \in group \ {target} } \cup
                      { [zone_id |-> zone_id, name |-> d, content |-> request.ip,
                         proxied |-> request.proxied, comment |-> request.comment] }

\* what an undisturbed cycle with the current arguments makes of the records rs
Reconciled(rs) ==
    LET served == { d \in args.domains : OwningZones(d) # {} }
        others == { r \in rs : ~\E d \in served : r.zone_id = OwningZone(d).id /\ r.name = d }
        kept == IF args.cleanup_stale THEN { r \in others : ~IsStale(r) } ELSE others
    IN  { Shape(r) : r \in kept } \cup UNION { ReconciledName(rs, d) : d \in served }

\* the cycle that nobody disturbs ends in Reconciled of the records it began with
ReconciledIsTheCycle ==
    (Done /\ (edits = <<>> \/ history # <<>>)) => { Shape(r) : r \in cf_records } = Reconciled(entry)

\* C24: records were edited by others between a fetch of the first cycle and
\* the mutation that followed it; when the next cycle, which nobody disturbs,
\* has returned, the provider's records are those that one cycle would have
\* made of the records of the first cycle's beginning with the edits applied
\* to them beforehand.
C24_RacingEditsAreCorrected ==
    (Done /\ history # <<>> /\ edits # <<>>) =>
       { Shape(r) : r \in cf_records } = Reconciled(Edited(history[1].entry, edits))

(***************************************************************************)
(* Claims about a proxy configuration without hostnames (SpecMain)         *)
(***************************************************************************)
\* the current cycle got no hostname from the proxy configuration: the set was
\* empty, or reading the configuration raised
ConfigYieldsNothing ==
    /\ cycle > 0 /\ Len(cycle_log) = cycle
    /\ \/ cycle_log[cycle].outcome = "no_domains"
       \/ cycle_log[cycle].cause = "parser"

\* C25: a cycle whose proxy configuration yields no hostname ends at once: no
\* IP source is asked, no provider call is made and the provider's records are
\* as they were, cleanup enabled or not; sync_domains never runs with an empty
\* set of desired hostnames, so no record is ever deleted for want of hostnames.
C25_NoHostnamesNoProviderCall ==
    /\ ConfigYieldsNothing =>
          /\ ip_queries = <<>> /\ calls = <<>>
          /\ cf_records = entry
          /\ pc = "idle" /\ main_pc # "sync"
    /\ pc # "idle" => args.domains # {}

\* cleanup is enabled; the first cycle completed and left a managed record of
\* b.e.c; the second found no hostname and the record is still there
C25_Witness ==
    /\ cycle = 2 /\ config.cleanup_stale
    /\ cycle_log = << [outcome |-> "completed", cause |-> ""],
                      [outcome |-> "no_domains", cause |-> ""] >>
    /\ \E r \in cf_records : r.name = HostB /\ HasMarker(r)

====
